---------------------------- MODULE Spec2Model ----------------------------
(***************************************************************************)
(* A model of the MinIO bucket-summary tool (prometheus/bucket_summary.go):*)
(* the line parser, the aggregation into per-bucket and cluster-level      *)
(* records, and the two report views.                                      *)
(*                                                                         *)
(* Strings are Go byte strings over ASCII: TLA+ strings, read one byte at  *)
(* a time with At(s, i).  What extractValue returns is written as a       *)
(* decimal string, so that every int64 can be told apart; the counters of  *)
(* the aggregate are TLA+ integers and stay far below 2^63, so no addition *)
(* of the model wraps.                                                     *)
(*                                                                         *)
(* The last part models the two goroutines of the S3 data generator        *)
(* (generate-s3-data/main.go) that share its Stats.                        *)
(***************************************************************************)
EXTENDS Integers, Sequences, FiniteSets, TLC

VARIABLES
    pc,     \* where the run is: "scan", "parsed", "table", "done", "failed";
            \* "call"/"ret" in the specifications of one function
    input,  \* the lines scanner.Scan() has returned so far, in order
    mp,     \* the MetricParser
    opts,   \* the DisplayOptions of the run
    table,  \* what PrintSummaryTable printed
    top,    \* what PrintTopBuckets printed
    arg,    \* the argument of the function under study
    ret,    \* its result
    stats,    \* the Stats of the generator's MinioClient
    ctx,      \* the context of the generator's run: "background" (no
              \* deadline), "timeout" (a deadline to come) or "done"
    loop,     \* the goroutine of runClient, which runs runOperations
    printer,  \* the goroutine of printStats
    store,    \* the objects of the configured buckets whose key contains
              \* the object prefix
    lastOp    \* the operation runOperations performed last

\* The variables of the bucket-summary tool and those of the generator.
tool == <<pc, input, mp, opts, table, top, arg, ret>>
generator == <<stats, ctx, loop, printer, store, lastOp>>

vars ==
    <<pc, input, mp, opts, table, top, arg, ret,
      stats, ctx, loop, printer, store, lastOp>>

-----------------------------------------------------------------------------
(* Byte strings: package strings.                                          *)

At(s, i) == SubSeq(s, i, i)

Digits == {"0", "1", "2", "3", "4", "5", "6", "7", "8", "9"}

Letters ==
    {"A", "B", "C", "D", "E", "F", "G", "H", "I", "J", "K", "L", "M",
     "N", "O", "P", "Q", "R", "S", "T", "U", "V", "W", "X", "Y", "Z",
     "a", "b", "c", "d", "e", "f", "g", "h", "i", "j", "k", "l", "m",
     "n", "o", "p", "q", "r", "s", "t", "u", "v", "w", "x", "y", "z"}

isDigit(c) == c \in Digits

isLetter(c) == c \in Letters

HasPrefix(s, prefix) ==
    Len(s) >= Len(prefix) /\ SubSeq(s, 1, Len(prefix)) = prefix

\* strings.Index, 1-based; 0 when substr does not occur in s.
Index(s, substr) ==
    LET hits == {i \in 1..(Len(s) - Len(substr) + 1) :
                    SubSeq(s, i, i + Len(substr) - 1) = substr}
    IN  IF hits = {} THEN 0 ELSE CHOOSE i \in hits : \A j \in hits : i <= j

Contains(s, substr) ==
    \E i \in 1..(Len(s) - Len(substr) + 1) :
        SubSeq(s, i, i + Len(substr) - 1) = substr

\* strings.ReplaceAll for a non-empty old: the non-overlapping occurrences,
\* leftmost first.
RECURSIVE ReplaceAll(_, _, _)
ReplaceAll(s, old, new) ==
    LET i == Index(s, old)
    IN  IF i = 0 THEN s
        ELSE SubSeq(s, 1, i - 1) \o new
                 \o ReplaceAll(SubSeq(s, i + Len(old), Len(s)), old, new)

-----------------------------------------------------------------------------
(* normalizeRange.                                                         *)

\* The first loop of normalizeRange, from byte i on: every byte is copied,
\* and a digit followed by a letter is followed by an underscore.
RECURSIVE InsertUnderscores(_, _)
InsertUnderscores(s, i) ==
    IF i > Len(s) THEN ""
    ELSE At(s, i)
             \o (IF i + 1 <= Len(s) /\ isDigit(At(s, i)) /\ isLetter(At(s, i + 1))
                 THEN "_" ELSE "")
             \o InsertUnderscores(s, i + 1)

\* for strings.Contains(cur, "__") { cur = strings.ReplaceAll(cur, "__", "_") }
RECURSIVE CollapseUnderscores(_)
CollapseUnderscores(cur) ==
    IF Contains(cur, "__")
    THEN CollapseUnderscores(ReplaceAll(cur, "__", "_"))
    ELSE cur

\* A variant that collapses in one pass only.
normalizeRange_OnePass(r) ==
    IF r = "" THEN r ELSE ReplaceAll(InsertUnderscores(r, 1), "__", "_")

normalizeRange(r) ==
    IF r = "" THEN r ELSE CollapseUnderscores(InsertUnderscores(r, 1))

-----------------------------------------------------------------------------
(* Label extraction: regexp.MustCompile(`key="([^"]+)"`).FindStringSubmatch *)

\* The position of the first double quote of s at or after position i, 0 when
\* there is none.
QuoteFrom(s, i) ==
    LET qs == {j \in i..Len(s) : At(s, j) = "\""}
    IN  IF qs = {} THEN 0 ELSE CHOOSE j \in qs : \A k \in qs : j <= k

\* The submatch of the leftmost match of key="([^"]+)" in line, "" when the
\* pattern does not match: the pattern matches at i when key=" starts at i,
\* at least one byte that is no quote follows, and a quote closes the run.
FindLabel(line, key) ==
    LET pat == key \o "=\""
        from(i) == i + Len(pat)
        matches == {i \in 1..(Len(line) - Len(pat) + 1) :
                       /\ SubSeq(line, i, i + Len(pat) - 1) = pat
                       /\ QuoteFrom(line, from(i)) > from(i)}
    IN  IF matches = {} THEN ""
        ELSE LET i == CHOOSE m \in matches : \A k \in matches : m <= k
             IN  SubSeq(line, from(i), QuoteFrom(line, from(i)) - 1)

extractBucketName(line) == FindLabel(line, "bucket")

extractServerName(line) == FindLabel(line, "server")

extractRange(line) == FindLabel(line, "range")

-----------------------------------------------------------------------------
(* Whitespace: strings.TrimSpace and strings.Fields.                       *)

isSpace(c) == c \in {" ", "\t", "\n", "\r", "\f"}

NonSpace(s) == {i \in 1..Len(s) : ~isSpace(At(s, i))}

Least(S) == CHOOSE i \in S : \A j \in S : i <= j

Greatest(S) == CHOOSE i \in S : (i + 1) \notin S /\ \A j \in S : i >= j

TrimSpace(s) ==
    IF NonSpace(s) = {} THEN ""
    ELSE SubSeq(s, Least(NonSpace(s)), Greatest(NonSpace(s)))

\* parts[len(parts)-1] of parts := strings.Fields(line), for a line with at
\* least one field: the bytes after the last white space that precedes the
\* last byte that is no white space.
LastField(line) ==
    LET last == Greatest(NonSpace(line))
        gaps == {i \in 1..last : isSpace(At(line, i))}
    IN  SubSeq(line, IF gaps = {} THEN 1 ELSE Greatest(gaps) + 1, last)

-----------------------------------------------------------------------------
(* strconv.  An int64 or a decimal literal of any size is written as its   *)
(* decimal string (what %d prints): "0", "567000000", "-9223372036854775808". *)

IsDigitString(s) == Len(s) > 0 /\ \A i \in 1..Len(s) : isDigit(At(s, i))

DigitValue(c) == Index("0123456789", c) - 1

RECURSIVE StripZeros(_)
StripZeros(s) ==
    IF s # "" /\ At(s, 1) = "0" THEN StripZeros(SubSeq(s, 2, Len(s))) ELSE s

RECURSIVE Zeros(_)
Zeros(n) ==
    IF n <= 0 THEN ""
    ELSE LET half == Zeros(n \div 2)
         IN  half \o half \o (IF n % 2 = 1 THEN "0" ELSE "")

\* a <= b for two digit strings of the same length.
RECURSIVE DigitsLE(_, _)
DigitsLE(a, b) ==
    IF a = "" THEN TRUE
    ELSE IF At(a, 1) = At(b, 1)
         THEN DigitsLE(SubSeq(a, 2, Len(a)), SubSeq(b, 2, Len(b)))
         ELSE DigitValue(At(a, 1)) < DigitValue(At(b, 1))

\* a <= b for two magnitudes written without leading zeros.
MagLE(a, b) == Len(a) < Len(b) \/ (Len(a) = Len(b) /\ DigitsLE(a, b))

\* The decimal string of the integer of sign neg and magnitude mag.
Decimal(neg, mag) ==
    IF StripZeros(mag) = "" THEN "0"
    ELSE (IF neg THEN "-" ELSE "") \o StripZeros(mag)

MaxInt64 == "9223372036854775807"

MinInt64 == "-9223372036854775808"

\* The number of digits of s from position i on, up to the first byte that is
\* no digit.
DigitRun(s, i) ==
    Least({j \in i..(Len(s) + 1) : j = Len(s) + 1 \/ ~isDigit(At(s, j))}) - i

\* strconv.ParseInt(s, 10, 64): an optional sign and decimal digits; a range
\* error when the value does not fit in 64 bits.
ParseInt(s) ==
    LET signed == s # "" /\ At(s, 1) \in {"+", "-"}
        neg    == s # "" /\ At(s, 1) = "-"
        body   == IF signed THEN SubSeq(s, 2, Len(s)) ELSE s
        bound  == IF neg THEN SubSeq(MinInt64, 2, Len(MinInt64)) ELSE MaxInt64
    IN  IF IsDigitString(body) /\ MagLE(StripZeros(body), bound)
        THEN [err |-> FALSE, value |-> Decimal(neg, body)]
        ELSE [err |-> TRUE, value |-> "0"]

RECURSIVE ToLower(_)
ToLower(s) ==
    IF s = "" THEN ""
    ELSE LET c == At(s, 1)
             u == Index("ABCDEFGHIJKLMNOPQRSTUVWXYZ", c)
         IN  (IF u = 0 THEN c ELSE At("abcdefghijklmnopqrstuvwxyz", u))
                 \o ToLower(SubSeq(s, 2, Len(s)))

\* The exponent of readFloat: e = e*10 + digit while e < 10000.
RECURSIVE ExpValue(_, _)
ExpValue(digits, e) ==
    IF digits = "" THEN e
    ELSE ExpValue(SubSeq(digits, 2, Len(digits)),
                  IF e < 10000 THEN e * 10 + DigitValue(At(digits, 1))
                  ELSE e)

\* The first n digits of mag followed by zeros.
Prefix(mag, n) == SubSeq(mag \o Zeros(n), 1, n)

\* What ParseFloat reads in s, for the decimal syntax and the special values
\* (hexadecimal literals are not modelled): whether s is well formed, the
\* value's class, its sign and, for a finite value, mag * 10^exp10.
ScanFloat(s) ==
    LET signed    == s # "" /\ At(s, 1) \in {"+", "-"}
        neg       == s # "" /\ At(s, 1) = "-"
        r         == IF signed THEN SubSeq(s, 2, Len(s)) ELSE s
        nInt      == DigitRun(r, 1)
        afterInt  == 1 + nInt
        hasDot    == afterInt <= Len(r) /\ At(r, afterInt) = "."
        nFrac     == IF hasDot THEN DigitRun(r, afterInt + 1) ELSE 0
        afterMant == IF hasDot THEN afterInt + 1 + nFrac ELSE afterInt
        hasExp    == afterMant <= Len(r) /\ At(r, afterMant) \in {"e", "E"}
        expSigned == hasExp /\ afterMant + 1 <= Len(r)
                            /\ At(r, afterMant + 1) \in {"+", "-"}
        expNeg    == expSigned /\ At(r, afterMant + 1) = "-"
        expStart  == afterMant + 1 + (IF expSigned THEN 1 ELSE 0)
        nExp      == IF hasExp THEN DigitRun(r, expStart) ELSE 0
        end       == IF hasExp THEN expStart + nExp ELSE afterMant
        e         == ExpValue(SubSeq(r, expStart, expStart + nExp - 1), 0)
        mag       == StripZeros(SubSeq(r, 1, nInt)
                                    \o SubSeq(r, afterInt + 1, afterInt + nFrac))
        exp10     == (IF expNeg THEN 0 - e ELSE e) - nFrac
    IN  IF ToLower(r) \in {"inf", "infinity"}
        THEN [ok |-> TRUE, class |-> "inf", neg |-> neg, mag |-> "", exp10 |-> 0]
        ELSE IF ToLower(s) = "nan"
        THEN [ok |-> TRUE, class |-> "nan", neg |-> FALSE, mag |-> "", exp10 |-> 0]
        ELSE IF nInt + nFrac > 0 /\ (hasExp => nExp > 0) /\ end = Len(r) + 1
        THEN [ok |-> TRUE, class |-> "finite", neg |-> neg, mag |-> mag,
              exp10 |-> exp10]
        ELSE [ok |-> FALSE, class |-> "finite", neg |-> neg, mag |-> "", exp10 |-> 0]

\* strconv.ParseFloat(s, 64): a syntax error when s is not well formed, a
\* range error when the value is finite and beyond the largest float64,
\* 1.797693134862315807e308.  The rounding of the decimal value to a float64
\* is not modelled: the value is taken exactly, which is what ParseFloat
\* returns when mag * 5^exp10 < 2^53.
ParseFloat(s) ==
    LET f      == ScanFloat(s)
        tooBig == /\ f.mag # ""
                  /\ \/ Len(f.mag) + f.exp10 > 309
                     \/ /\ Len(f.mag) + f.exp10 = 309
                        /\ ~DigitsLE(Prefix(f.mag, 21), "179769313486231580793")
    IN  [err |-> ~f.ok \/ tooBig, class |-> f.class, neg |-> f.neg,
         mag |-> f.mag, exp10 |-> f.exp10]

\* The integer part of mag * 10^exp10, when it has at most 19 digits.
Truncated(mag, exp10) ==
    IF Len(mag) + exp10 <= 0 THEN ""
    ELSE IF exp10 >= 0 THEN mag \o Zeros(exp10)
    ELSE SubSeq(mag, 1, Len(mag) + exp10)

\* int64(valueF): the value truncated toward zero when that fits in an int64.
\* Otherwise, and for NaN, the Go specification leaves the result to the
\* implementation: amd64 yields the smallest int64 in every case, arm64
\* saturates and yields 0 for NaN.
Int64OfFloat(f) ==
    IF f.class = "nan" THEN {MinInt64, "0"}
    ELSE IF f.class = "inf" \/ Len(f.mag) + f.exp10 > 19
                            \/ ParseInt(Decimal(f.neg, Truncated(f.mag, f.exp10))).err
    THEN IF f.neg THEN {MinInt64} ELSE {MinInt64, MaxInt64}
    ELSE {Decimal(f.neg, Truncated(f.mag, f.exp10))}

\* A variant that never tries the floating-point syntax.
extractValue_IntOnly(line) ==
    IF NonSpace(line) = {} THEN {"0"}
    ELSE IF ~ParseInt(LastField(line)).err THEN {ParseInt(LastField(line)).value}
    ELSE {"0"}

\* extractValue: the values the call may return (one, unless the conversion
\* of the float is left to the implementation).
extractValue(line) ==
    IF NonSpace(line) = {} THEN {"0"}
    ELSE LET valueStr == LastField(line)
         IN  IF ~ParseInt(valueStr).err THEN {ParseInt(valueStr).value}
             ELSE IF ~ParseFloat(valueStr).err
             THEN Int64OfFloat(ParseFloat(valueStr))
             ELSE {"0"}

-----------------------------------------------------------------------------
(* int64 values held as TLA+ integers, and their printing.                 *)

\* The integer a decimal string of at most nine digits denotes.
RECURSIVE ToNat(_)
ToNat(digits) ==
    IF digits = "" THEN 0
    ELSE ToNat(SubSeq(digits, 1, Len(digits) - 1)) * 10
             + DigitValue(At(digits, Len(digits)))

Atoi(dec) ==
    IF At(dec, 1) = "-" THEN 0 - ToNat(SubSeq(dec, 2, Len(dec))) ELSE ToNat(dec)

\* The decimal strings the model holds as integers.
InModel(dec) == Len(dec) <= (IF At(dec, 1) = "-" THEN 10 ELSE 9)

\* fmt's %d.
RECURSIVE NatToString(_)
NatToString(n) ==
    IF n < 10 THEN At("0123456789", n + 1)
    ELSE NatToString(n \div 10) \o At("0123456789", (n % 10) + 1)

Itoa(n) == IF n < 0 THEN "-" \o NatToString(0 - n) ELSE NatToString(n)

-----------------------------------------------------------------------------
(* formatBytes.                                                            *)

unit == 1024

\* for n := bytes / unit; n >= unit; n /= unit { div *= unit; exp++ }
\* started from div, exp: the final <<div, exp>>.
RECURSIVE FormatLoop(_, _, _)
FormatLoop(n, div, exp) ==
    IF n >= unit THEN FormatLoop(n \div unit, div * unit, exp + 1)
    ELSE <<div, exp>>

\* fmt's %.1f of bytes / div, for div a power of 1024 and bytes >= div: the
\* quotient is exact in a float64, and is rounded to one decimal, a tie going
\* to the even digit.  The remainder is scaled by 10 in two steps so that no
\* intermediate value leaves the model's integers.
OneDecimal(bytes, div) ==
    LET d1     == div \div unit
        rem    == bytes % div
        h      == 10 * (rem \div d1) + (10 * (rem % d1)) \div d1
        lo     == (10 * (rem % d1)) % d1
        digit  == h \div unit
        rest   == (h % unit) * d1 + lo
        tenths == (bytes \div div) * 10 + digit
        up     == rest > div - rest \/ (rest = div - rest /\ tenths % 2 = 1)
        t      == IF up THEN tenths + 1 ELSE tenths
    IN  Itoa(t \div 10) \o "." \o Itoa(t % 10)

\* A variant that always divides by 1024: the loop choosing the unit is lost.
formatBytes_NoLoop(bytes) ==
    IF bytes < unit THEN Itoa(bytes) \o " B"
    ELSE OneDecimal(bytes, unit) \o " KB"

formatBytes(bytes) ==
    IF bytes < unit THEN Itoa(bytes) \o " B"
    ELSE LET de == FormatLoop(bytes \div unit, unit, 0)
         IN  OneDecimal(bytes, de[1]) \o " " \o At("KMGTPE", de[2] + 1) \o "B"

\* formatBytes over the whole of int64.  The model's integers are narrower
\* than int64, so a byte count is written here as its digits to the base
\* 1024, the most significant first and the first not 0 unless it is alone.
WideMaxInt64 == <<7, 1023, 1023, 1023, 1023, 1023, 1023>>

\* n >= unit
AtLeastUnit(n) == Len(n) >= 2

\* n / unit
DivUnit(n) == IF Len(n) = 1 THEN <<0>> ELSE SubSeq(n, 1, Len(n) - 1)

\* for n := bytes / unit; n >= unit; n /= unit { div *= unit; exp++ }:
\* the value of exp when the loop ends.
RECURSIVE FormatLoopWide(_, _)
FormatLoopWide(n, exp) ==
    IF AtLeastUnit(n) THEN FormatLoopWide(DivUnit(n), exp + 1) ELSE exp

\* A variant whose loop starts from bytes and not from bytes / unit.
unitIndex_NoFirstDivision(bytes) == FormatLoopWide(bytes, 0)

\* exp as formatBytes leaves it for bytes >= unit.
unitIndex(bytes) == FormatLoopWide(DivUnit(bytes), 0)

\* The verb and the unit formatBytes prints with: "%d B" below unit, and
\* "%.1f %cB" with "KMGTPE"[exp] from unit on; the index expression panics
\* when exp is not below the length of the string.
formatBytesWide(bytes) ==
    IF ~AtLeastUnit(bytes)
    THEN [panic |-> FALSE, decimal |-> FALSE, exp |-> 0, suffix |-> " B"]
    ELSE LET exp == unitIndex(bytes)
         IN  IF exp >= Len("KMGTPE")
             THEN [panic |-> TRUE, decimal |-> TRUE, exp |-> exp, suffix |-> ""]
             ELSE [panic   |-> FALSE,
                   decimal |-> TRUE,
                   exp     |-> exp,
                   suffix  |-> " " \o At("KMGTPE", exp + 1) \o "B"]

-----------------------------------------------------------------------------
(* Go maps from string to int64.                                           *)

EmptyMap == [k \in {} |-> 0]

\* m[k], the zero value when k is no key of m.
Get(m, k) == IF k \in DOMAIN m THEN m[k] ELSE 0

\* m[k] += v: the entry exists afterwards, also when v is 0.
AddTo(m, k, v) ==
    [x \in DOMAIN m \cup {k} |-> IF x = k THEN Get(m, k) + v ELSE m[x]]

RECURSIVE SumOver(_, _)
SumOver(m, keys) ==
    IF keys = {} THEN 0
    ELSE LET k == CHOOSE x \in keys : TRUE
         IN  m[k] + SumOver(m, keys \ {k})

\* strings.Join(parts, sep)
RECURSIVE Join(_, _)
Join(parts, sep) ==
    IF parts = <<>> THEN ""
    ELSE IF Len(parts) = 1 THEN parts[1]
    ELSE parts[1] \o sep \o Join(Tail(parts), sep)

-----------------------------------------------------------------------------
(* The versioning and size classifications.                                *)

\* rangeOrder of formatVersionDistribution, each key with its label.
VersionRangeOrder ==
    << <<"UNVERSIONED", "Unversioned: ">>,
       <<"SINGLE_VERSION", "Single: ">>,
       <<"BETWEEN_2_AND_10", "2-10v: ">>,
       <<"BETWEEN_10_AND_100", "10-100v: ">>,
       <<"BETWEEN_100_AND_1000", "100-1Kv: ">>,
       <<"BETWEEN_1000_AND_10000", "1K-10Kv: ">>,
       <<"GREATER_THAN_10000", ">10Kv: ">> >>

\* rangeOrder of formatSizeDistribution, each key with its label.
SizeRangeOrder ==
    << <<"LESS_THAN_1024_B", "<1KB: ">>,
       <<"BETWEEN_1024_B_AND_64_KB", "1KB-64KB: ">>,
       <<"BETWEEN_64_KB_AND_256_KB", "64KB-256KB: ">>,
       <<"BETWEEN_256_KB_AND_512_KB", "256KB-512KB: ">>,
       <<"BETWEEN_512_KB_AND_1_MB", "512KB-1MB: ">>,
       <<"BETWEEN_1024_B_AND_1_MB", "1KB-1MB: ">>,
       <<"BETWEEN_1024B_AND_1_MB", "1KB-1MB: ">>,
       <<"BETWEEN_1_MB_AND_10_MB", "1-10MB: ">>,
       <<"BETWEEN_10_MB_AND_64_MB", "10-64MB: ">>,
       <<"BETWEEN_64_MB_AND_128_MB", "64-128MB: ">>,
       <<"BETWEEN_128_MB_AND_512_MB", "128-512MB: ">>,
       <<"GREATER_THAN_512_MB", ">512MB: ">> >>

\* The parts of a distribution summary: for each key of order, in order, that
\* is in dist with a positive count, its label and the count.
RECURSIVE DistParts(_, _)
DistParts(dist, order) ==
    IF order = <<>> THEN <<>>
    ELSE LET key == order[1][1]
         IN  (IF key \in DOMAIN dist /\ dist[key] > 0
              THEN <<order[1][2] \o Itoa(dist[key])>> ELSE <<>>)
                 \o DistParts(dist, Tail(order))

FormatDistribution(dist, order) ==
    IF DOMAIN dist = {} THEN "N/A"
    ELSE IF DistParts(dist, order) = <<>> THEN "All zeros"
    ELSE Join(DistParts(dist, order), ", ")

formatVersionDistribution(versionDist) ==
    FormatDistribution(versionDist, VersionRangeOrder)

formatSizeDistribution(sizeDist) == FormatDistribution(sizeDist, SizeRangeOrder)

\* A variant whose first test forgets the other counts.
getVersioningStatus_UnversionedFirst(versionDist) ==
    IF DOMAIN versionDist = {} THEN "Unknown"
    ELSE IF Get(versionDist, "UNVERSIONED") > 0 THEN "Unversioned"
    ELSE IF Get(versionDist, "SINGLE_VERSION") > 0 THEN "Single Version"
    ELSE "Multi-Version"

getVersioningStatus(versionDist) ==
    IF DOMAIN versionDist = {} THEN "Unknown"
    ELSE LET singleVersion  == Get(versionDist, "SINGLE_VERSION")
             unversioned    == Get(versionDist, "UNVERSIONED")
             totalVersioned ==
                 SumOver(versionDist,
                         DOMAIN versionDist \ {"UNVERSIONED", "SINGLE_VERSION"})
         IN  IF unversioned > 0 /\ singleVersion = 0 /\ totalVersioned = 0
             THEN "Unversioned"
             ELSE IF singleVersion > 0 /\ totalVersioned = 0
             THEN "Single Version"
             ELSE IF totalVersioned > 0 THEN "Multi-Version"
             ELSE "Mixed"

SmallRanges ==
    {"LESS_THAN_1024_B", "BETWEEN_1024_B_AND_64_KB", "BETWEEN_1024_B_AND_1_MB",
     "BETWEEN_1024B_AND_1_MB", "BETWEEN_64_KB_AND_256_KB",
     "BETWEEN_256_KB_AND_512_KB", "BETWEEN_512_KB_AND_1_MB"}

MediumRanges == {"BETWEEN_1_MB_AND_10_MB", "BETWEEN_10_MB_AND_64_MB"}

LargeRanges ==
    {"BETWEEN_64_MB_AND_128_MB", "BETWEEN_128_MB_AND_512_MB",
     "GREATER_THAN_512_MB"}

\* float64(part) / float64(total) * 100 >= pct, for total # 0, with the
\* quotient taken exactly (the rounding of the float64 operations is not
\* modelled).
PctAtLeast(part, total, pct) ==
    IF total > 0 THEN part * 100 >= pct * total ELSE part * 100 <= pct * total

\* A variant with the thresholds of small and medium exchanged.
getSizeStatus_Thresholds(sizeDist) ==
    IF DOMAIN sizeDist = {} THEN "Unknown"
    ELSE LET small  == SumOver(sizeDist, SmallRanges \cap DOMAIN sizeDist)
             medium == SumOver(sizeDist, MediumRanges \cap DOMAIN sizeDist)
             large  == SumOver(sizeDist, LargeRanges \cap DOMAIN sizeDist)
             total  == small + medium + large
         IN  IF total = 0 THEN "Empty"
             ELSE IF PctAtLeast(small, total, 60) THEN "Mostly Small"
             ELSE IF PctAtLeast(medium, total, 80) THEN "Mostly Medium"
             ELSE IF PctAtLeast(large, total, 60) THEN "Mostly Large"
             ELSE "Mixed Sizes"

getSizeStatus(sizeDist) ==
    IF DOMAIN sizeDist = {} THEN "Unknown"
    ELSE LET small  == SumOver(sizeDist, SmallRanges \cap DOMAIN sizeDist)
             medium == SumOver(sizeDist, MediumRanges \cap DOMAIN sizeDist)
             large  == SumOver(sizeDist, LargeRanges \cap DOMAIN sizeDist)
             total  == small + medium + large
         IN  IF total = 0 THEN "Empty"
             ELSE IF PctAtLeast(small, total, 80) THEN "Mostly Small"
             ELSE IF PctAtLeast(medium, total, 60) THEN "Mostly Medium"
             ELSE IF PctAtLeast(large, total, 60) THEN "Mostly Large"
             ELSE "Mixed Sizes"

-----------------------------------------------------------------------------
(* The aggregate: MetricParser and BucketSummary.                          *)

NewMetricParser ==
    [buckets            |-> [b \in {} |-> 0],
     ClusterObjects     |-> 0,
     ClusterBytes       |-> 0,
     ClusterVersionDist |-> EmptyMap,
     ClusterSizeDist    |-> EmptyMap]

\* The BucketSummary that ParseFile creates for a bucket it has not seen.
NewBucketSummary(bucketName) ==
    [Name                |-> bucketName,
     ObjectCount         |-> 0,
     SizeBytes           |-> 0,
     SizeHuman           |-> "",
     Servers             |-> <<>>,
     VersionDistribution |-> EmptyMap,
     SizeDistribution    |-> EmptyMap]

\* A variant that appends the server without looking for it.
addServer_Always(bs, server) == [bs EXCEPT !.Servers = Append(@, server)]

addServer(bs, server) ==
    IF \E i \in 1..Len(bs.Servers) : bs.Servers[i] = server
    THEN bs
    ELSE [bs EXCEPT !.Servers = Append(@, server)]

\* A variant that overwrites the count instead of adding to it.
AddObjectCount_Overwrite(bucket, line, value) ==
    IF Contains(line, "minio_bucket_usage_object_total")
    THEN [bucket EXCEPT !.ObjectCount = value]
    ELSE bucket

\* if strings.Contains(line, "minio_bucket_usage_object_total") { ... }
AddObjectCount(bucket, line, value) ==
    IF Contains(line, "minio_bucket_usage_object_total")
    THEN [bucket EXCEPT !.ObjectCount = @ + value]
    ELSE bucket

\* if strings.Contains(line, "minio_bucket_usage_total_bytes") { ... }
AddSizeBytes(bucket, line, value) ==
    IF Contains(line, "minio_bucket_usage_total_bytes")
    THEN [bucket EXCEPT !.SizeBytes = @ + value,
                        !.SizeHuman = formatBytes(bucket.SizeBytes + value)]
    ELSE bucket

\* if strings.Contains(line, "minio_bucket_objects_version_distribution") { ... }
AddVersionDistribution(bucket, line, value) ==
    IF /\ Contains(line, "minio_bucket_objects_version_distribution")
       /\ extractRange(line) # ""
    THEN [bucket EXCEPT !.VersionDistribution =
                            AddTo(@, normalizeRange(extractRange(line)), value)]
    ELSE bucket

\* A variant that keys the size distribution by the label as reported.
AddSizeDistribution_RawKey(bucket, line, value) ==
    IF /\ Contains(line, "minio_bucket_objects_size_distribution")
       /\ extractRange(line) # ""
    THEN [bucket EXCEPT !.SizeDistribution =
                            AddTo(@, extractRange(line), value)]
    ELSE bucket

\* if strings.Contains(line, "minio_bucket_objects_size_distribution") { ... }
AddSizeDistribution(bucket, line, value) ==
    IF /\ Contains(line, "minio_bucket_objects_size_distribution")
       /\ extractRange(line) # ""
    THEN [bucket EXCEPT !.SizeDistribution =
                            AddTo(@, normalizeRange(extractRange(line)), value)]
    ELSE bucket

\* The body of ParseFile's loop for a line with a bucket label; value is what
\* extractValue returns for the line.
BucketLine(m, line, value) ==
    LET bucketName == extractBucketName(line)
        serverName == extractServerName(line)
        bucket     == IF bucketName \in DOMAIN m.buckets
                      THEN m.buckets[bucketName]
                      ELSE NewBucketSummary(bucketName)
        updated    ==
            AddSizeDistribution(
                AddVersionDistribution(
                    AddSizeBytes(
                        AddObjectCount(addServer(bucket, serverName), line, value),
                        line, value),
                    line, value),
                line, value)
    IN  [m EXCEPT !.buckets =
            [b \in DOMAIN m.buckets \cup {bucketName} |->
                IF b = bucketName THEN updated ELSE m.buckets[b]]]

\* The body of ParseFile's loop for a line without a bucket label: the first
\* cluster family name the line contains decides, and a line with none is
\* dropped.
ClusterLine(m, line, value) ==
    IF Contains(line, "minio_cluster_usage_object_total")
    THEN [m EXCEPT !.ClusterObjects = @ + value]
    ELSE IF Contains(line, "minio_cluster_usage_total_bytes")
    THEN [m EXCEPT !.ClusterBytes = @ + value]
    ELSE IF Contains(line, "minio_cluster_objects_version_distribution")
    THEN IF extractRange(line) # ""
         THEN [m EXCEPT !.ClusterVersionDist =
                            AddTo(@, normalizeRange(extractRange(line)), value)]
         ELSE m
    ELSE IF Contains(line, "minio_cluster_objects_size_distribution")
    THEN IF extractRange(line) # ""
         THEN [m EXCEPT !.ClusterSizeDist =
                            AddTo(@, normalizeRange(extractRange(line)), value)]
         ELSE m
    ELSE m

\* Whether ParseFile's loop skips the (trimmed) line: a comment or empty.
Skipped(line) == HasPrefix(line, "#") \/ line = ""

\* A variant that treats every line it does not skip as the line of a bucket.
ParseLine_NoLabelTest(m, text, value) ==
    LET line == TrimSpace(text)
    IN  IF Skipped(line) THEN m ELSE BucketLine(m, line, value)

\* One iteration of ParseFile's loop on the text the scanner returned.
ParseLine(m, text, value) ==
    LET line == TrimSpace(text)
    IN  IF Skipped(line) THEN m
        ELSE IF extractBucketName(line) = "" THEN ClusterLine(m, line, value)
        ELSE BucketLine(m, line, value)

-----------------------------------------------------------------------------
(* The report: GetSummary, PrintSummaryTable, PrintTopBuckets.             *)

DisplayOptions ==
    [ShowVersions : BOOLEAN, ShowSizes : BOOLEAN, Cluster : BOOLEAN]

\* The sequences that list the elements of s in some other order.
Reorderings(s) ==
    LET n == Len(s)
    IN  IF n = 0 THEN {<<>>}
        ELSE {[i \in 1..n |-> s[f[i]]] :
                f \in {g \in [1..n -> 1..n] :
                         \A i, j \in 1..n : i # j => g[i] # g[j]}}

\* The orders in which a range loop may visit the values of a Go map.
MapOrders(buckets) ==
    LET values == {buckets[b] : b \in DOMAIN buckets}
    IN  IF values = {} THEN {<<>>}
        ELSE {s \in [1..Cardinality(values) -> values] :
                \A i, j \in 1..Cardinality(values) : i # j => s[i] # s[j]}

\* A variant that leaves the slice as it is.
SortSlice_Unsorted(summaries) == {summaries}

\* sort.Slice(summaries, func(i, j) { return summaries[i].SizeBytes >
\* summaries[j].SizeBytes }): the sort is not stable, so every order of the
\* slice in which no element precedes one of greater SizeBytes may result.
SortSlice(summaries) ==
    {t \in Reorderings(summaries) :
        \A i, j \in 1..Len(t) : i < j => ~(t[j].SizeBytes > t[i].SizeBytes)}

\* GetSummary: the slices the call may return.
GetSummary(m) == UNION {SortSlice(summaries) : summaries \in MapOrders(m.buckets)}

\* A variant that falls back to the cluster row whatever was read.
HasClusterData_Always(m) == m.ClusterObjects >= 0 \/ m.ClusterObjects < 0

\* A variant that looks at the object total only.
HasClusterData_ObjectsOnly(m) == m.ClusterObjects > 0

\* mp.ClusterObjects > 0 || mp.ClusterBytes > 0 ||
\* len(mp.ClusterVersionDist) > 0 || len(mp.ClusterSizeDist) > 0
HasClusterData(m) ==
    \/ m.ClusterObjects > 0
    \/ m.ClusterBytes > 0
    \/ DOMAIN m.ClusterVersionDist # {}
    \/ DOMAIN m.ClusterSizeDist # {}

\* The temporary summary row for the cluster.
ClusterSummary(m) ==
    [Name                |-> "<cluster-aggregate>",
     ObjectCount         |-> m.ClusterObjects,
     SizeBytes           |-> m.ClusterBytes,
     SizeHuman           |-> formatBytes(m.ClusterBytes),
     Servers             |-> <<>>,
     VersionDistribution |-> m.ClusterVersionDist,
     SizeDistribution    |-> m.ClusterSizeDist]

\* A variant that appends the cluster row and does not sort again.
ForceCluster_NoSort(summaries, m, o) ==
    IF /\ o.Cluster
       /\ HasClusterData(m)
       /\ ~\E i \in 1..Len(summaries) : summaries[i].Name = "<cluster-aggregate>"
    THEN {Append(summaries, ClusterSummary(m))}
    ELSE {summaries}

\* The block "if opts.Cluster && (...)" of both views: the slices it may
\* leave in summaries.
ForceCluster(summaries, m, o) ==
    IF /\ o.Cluster
       /\ HasClusterData(m)
       /\ ~\E i \in 1..Len(summaries) : summaries[i].Name = "<cluster-aggregate>"
    THEN SortSlice(Append(summaries, ClusterSummary(m)))
    ELSE {summaries}

\* The name as the table shows it.
DisplayName(bucketName) ==
    IF Len(bucketName) > 40 THEN SubSeq(bucketName, 1, 37) \o "..."
    ELSE bucketName

\* One row of the table: the cells printed for a bucket; a column that the
\* options leave out is "".
TableRow(bucket, o) ==
    [name       |-> DisplayName(bucket.Name),
     objects    |-> bucket.ObjectCount,
     bytes      |-> bucket.SizeBytes,
     human      |-> bucket.SizeHuman,
     versioning |-> IF o.ShowVersions
                    THEN getVersioningStatus(bucket.VersionDistribution) ELSE "",
     sizes      |-> IF o.ShowSizes
                    THEN getSizeStatus(bucket.SizeDistribution) ELSE ""]

\* totalObjects and totalBytes of the loop over summaries, after its first n
\* iterations.
RECURSIVE TotalObjects(_, _)
TotalObjects(summaries, n) ==
    IF n = 0 THEN 0
    ELSE TotalObjects(summaries, n - 1) + summaries[n].ObjectCount

RECURSIVE TotalBytes(_, _)
TotalBytes(summaries, n) ==
    IF n = 0 THEN 0
    ELSE TotalBytes(summaries, n - 1) + summaries[n].SizeBytes

\* A variant whose totals row counts the buckets of the parser only.
TotalsRow_BucketsOnly(summaries) ==
    LET own == SelectSeq(summaries, LAMBDA b : b.Name # "<cluster-aggregate>")
    IN  [buckets |-> Len(own),
         objects |-> TotalObjects(own, Len(own)),
         bytes   |-> TotalBytes(own, Len(own)),
         human   |-> formatBytes(TotalBytes(own, Len(own)))]

\* The totals row: "TOTAL (%d buckets)", totalObjects, totalBytes,
\* formatBytes(totalBytes).
TotalsRow(summaries) ==
    [buckets |-> Len(summaries),
     objects |-> TotalObjects(summaries, Len(summaries)),
     bytes   |-> TotalBytes(summaries, Len(summaries)),
     human   |-> formatBytes(TotalBytes(summaries, Len(summaries)))]

TableHeader(o) ==
    <<"BUCKET NAME", "OBJECT COUNT", "SIZE (BYTES)", "SIZE (HUMAN)">>
        \o (IF o.ShowVersions THEN <<"VERSIONING">> ELSE <<>>)
        \o (IF o.ShowSizes THEN <<"SIZE DIST">> ELSE <<>>)

NotPrinted == [printed |-> FALSE]

\* PrintSummaryTable(opts): what the call may print.
SummaryTables(m, o) ==
    UNION {
        IF summaries = <<>> /\ ~HasClusterData(m)
        THEN {[printed |-> TRUE,
               msgs    |-> <<"No bucket data found">>,
               header  |-> <<>>,
               rows    |-> <<>>,
               totals  |-> <<>>]}
        ELSE {[printed |-> TRUE,
               msgs    |-> IF summaries = <<>>
                           THEN <<"No per-bucket data found; showing cluster-level aggregates instead">>
                           ELSE <<>>,
               header  |-> TableHeader(o),
               rows    |-> [i \in 1..Len(final) |-> TableRow(final[i], o)],
               totals  |-> <<TotalsRow(final)>>] :
                 final \in ForceCluster(IF summaries = <<>>
                                        THEN <<ClusterSummary(m)>>
                                        ELSE summaries, m, o)}
        : summaries \in GetSummary(m)}

\* One entry of the Top-N section; a line that is not printed is "".
TopEntry(i, bucket, o) ==
    LET versionDetail == formatVersionDistribution(bucket.VersionDistribution)
        sizeDetail    == formatSizeDistribution(bucket.SizeDistribution)
    IN  [rank           |-> i,
         name           |-> bucket.Name,
         objects        |-> bucket.ObjectCount,
         bytes          |-> bucket.SizeBytes,
         human          |-> bucket.SizeHuman,
         versioning     |-> IF o.ShowVersions
                            THEN getVersioningStatus(bucket.VersionDistribution)
                            ELSE "",
         versionDetails |-> IF o.ShowVersions
                               /\ versionDetail \notin {"N/A", "All zeros"}
                            THEN versionDetail ELSE "",
         sizes          |-> IF o.ShowSizes
                            THEN getSizeStatus(bucket.SizeDistribution) ELSE "",
         sizeDetails    |-> IF o.ShowSizes
                               /\ sizeDetail \notin {"N/A", "All zeros"}
                            THEN sizeDetail ELSE ""]

\* if n > len(summaries) { n = len(summaries) }
ClipN(n, summaries) == IF n > Len(summaries) THEN Len(summaries) ELSE n

\* PrintTopBuckets(n, opts): what the call may print.
TopBuckets(m, n, o) ==
    UNION {
        IF summaries = <<>> /\ ~HasClusterData(m)
        THEN {[printed |-> TRUE,
               n       |-> n,
               msgs    |-> <<"No bucket data found">>,
               title   |-> "",
               entries |-> <<>>]}
        ELSE {[printed |-> TRUE,
               n       |-> n,
               msgs    |-> <<>>,
               title   |-> "Top " \o Itoa(ClipN(n, final)) \o " Buckets by Size:",
               entries |-> [i \in 1..ClipN(n, final) |-> TopEntry(i, final[i], o)]] :
                 final \in ForceCluster(IF summaries = <<>>
                                        THEN <<ClusterSummary(m)>>
                                        ELSE summaries, m, o)}
        : summaries \in GetSummary(m)}

-----------------------------------------------------------------------------
(* The inputs of the model.                                                *)

\* The most lines a modelled input holds.
MaxLines == 3

\* The magnitude that the sum of the modelled counters stays within.
MaxCounter == 1000000000

\* The longest generated range label.
MaxLen == 4

\* Lines of a metrics file, after the repository's test and README.
ReportLines ==
    {"minio_bucket_usage_object_total{bucket=\"a\",server=\"s1\"} 2",
     "minio_bucket_usage_total_bytes{bucket=\"a\",server=\"s1\"} 2.0e+03",
     "minio_bucket_usage_total_bytes{bucket=\"b\",server=\"s1\"} 7",
     "minio_bucket_objects_version_distribution{bucket=\"a\",range=\"SINGLE_VERSION\",server=\"s1\"} 5",
     "minio_bucket_objects_size_distribution{bucket=\"b\",range=\"BETWEEN_1024B_AND_1_MB\",server=\"s1\"} 100",
     "minio_bucket_objects_version_distribution{bucket=\"b\",range=\"UNVERSIONED\",server=\"s1\"} n/a",
     "minio_cluster_usage_object_total{server=\"s1\"} 12345",
     "minio_cluster_usage_object_total{server=\"s1\"} 0",
     "minio_cluster_usage_total_bytes{server=\"s1\"} 5.67e+08",
     "minio_cluster_objects_version_distribution{range=\"UNVERSIONED\",server=\"s1\"} n/a"}

\* Lines of a metrics file for the parse alone: comments, blank lines, a
\* bucket reported by two servers, negative and floating-point values, both
\* spellings of a range, families and labels that ParseFile does not know.
Lines ==
    {"",
     "# TYPE minio_bucket_usage_object_total gauge",
     "minio_bucket_usage_object_total{bucket=\"a\",server=\"s1\"} 2",
     "minio_bucket_usage_object_total{bucket=\"a\",server=\"s2\"} 3",
     "minio_bucket_usage_object_total{bucket=\"b\",server=\"s1\"} -1",
     "minio_bucket_usage_total_bytes{bucket=\"a\",server=\"s1\"} 2.0e+03",
     "minio_bucket_objects_version_distribution{bucket=\"a\",range=\"SINGLE_VERSION\",server=\"s1\"} 5",
     "minio_bucket_objects_version_distribution{bucket=\"b\",range=\"UNVERSIONED\",server=\"s1\"} n/a",
     "minio_bucket_objects_size_distribution{bucket=\"b\",range=\"BETWEEN_1024B_AND_1_MB\",server=\"s1\"} 100",
     "minio_bucket_objects_size_distribution{bucket=\"b\",range=\"BETWEEN_1024_B_AND_1_MB\",server=\"s2\"} 1",
     "minio_bucket_replication_total{bucket=\"c\",server=\"s1\"} 9",
     "minio_cluster_usage_object_total{server=\"s1\"} 12345",
     "minio_cluster_usage_total_bytes{server=\"s1\"} 5.67e+08",
     "minio_cluster_objects_size_distribution{range=\"BETWEEN_1024B_AND_1_MB\",server=\"s1\"} 100",
     "minio_cluster_objects_version_distribution{range=\"SINGLE_VERSION\",server=\"s1\"} 300",
     "minio_node_uptime_seconds{server=\"s1\"} 9"}

\* The values of n given to PrintTopBuckets.
TopNs == {0 - 1, 0, 1, 2, 5}

\* The sum of the magnitudes of the counters of m.
Abs(n) == IF n < 0 THEN 0 - n ELSE n

RECURSIVE Magnitude(_, _)
Magnitude(m, names) ==
    IF names = {} THEN Abs(m.ClusterObjects) + Abs(m.ClusterBytes)
    ELSE LET b == CHOOSE x \in names : TRUE
         IN  Abs(m.buckets[b].ObjectCount) + Abs(m.buckets[b].SizeBytes)
                 + Magnitude(m, names \ {b})

-----------------------------------------------------------------------------
(* The run of the tool: main.                                              *)

\* var opts DisplayOptions
NoOptions == [ShowVersions |-> FALSE, ShowSizes |-> FALSE, Cluster |-> FALSE]

\* The fields of Stats, in the order printStats prints them.
StatsFields ==
    <<"ReadOps", "WriteOps", "OverwriteOps", "DeleteOps", "PrefixDeleteOps",
      "MultipartOps", "ErrorOps">>

\* &Stats{}
NewStats == [k \in {StatsFields[i] : i \in 1..Len(StatsFields)} |-> 0]

\* No operation performed yet.
NoOperation ==
    [op |-> "", inc |-> <<>>, created |-> {}, deleted |-> {}, err |-> FALSE]

\* runClient before "ctx := context.Background()".
GeneratorIdle ==
    /\ stats = NewStats
    /\ ctx = "background"
    /\ store = {}
    /\ lastOp = NoOperation
    /\ loop = [pc |-> "start", delay |-> 1, todo |-> <<>>, tmp |-> 0,
               ops |-> 0, final |-> <<>>]
    /\ printer = [pc |-> "unstarted", next |-> 1, seen |-> <<>>, line |-> <<>>]

Idle ==
    /\ input = <<>>
    /\ mp = NewMetricParser
    /\ opts = NoOptions
    /\ table = NotPrinted
    /\ top = NotPrinted
    /\ GeneratorIdle

Init ==
    /\ pc = "scan"
    /\ Idle
    /\ arg = ""
    /\ ret = ""

\* scanner.Scan() returns a line of the set U and the loop body runs on it.
ScanFrom(U) ==
    /\ pc = "scan"
    /\ Len(input) < MaxLines
    /\ \E text \in U :
         \E value \in extractValue(TrimSpace(text)) :
            /\ InModel(value)
            /\ Magnitude(mp, DOMAIN mp.buckets) + Abs(Atoi(value)) <= MaxCounter
            /\ mp' = ParseLine(mp, text, Atoi(value))
            /\ input' = Append(input, text)
    /\ UNCHANGED <<pc, opts, table, top, arg, ret, generator>>

ScanLine == ScanFrom(ReportLines)

ScanAnyLine == ScanFrom(Lines)

\* scanner.Scan() returns false at the end of the input and ParseFile
\* returns scanner.Err(), nil.
EndOfInput ==
    /\ pc = "scan"
    /\ pc' = "parsed"
    /\ UNCHANGED <<input, mp, opts, table, top, arg, ret, generator>>

\* os.Open fails: ParseFile returns the error and main ends in log.Fatalf.
OpenError ==
    /\ pc = "scan"
    /\ input = <<>>
    /\ pc' = "failed"
    /\ UNCHANGED <<input, mp, opts, table, top, arg, ret, generator>>

\* A read fails: scanner.Scan() returns false, ParseFile returns scanner.Err()
\* and main ends in log.Fatalf.
ReadError ==
    /\ pc = "scan"
    /\ pc' = "failed"
    /\ UNCHANGED <<input, mp, opts, table, top, arg, ret, generator>>

\* A variant that prints the table without waiting for the end of the input.
PrintSummaryTable_WhileScanning ==
    /\ pc \in {"scan", "parsed"}
    /\ \E o \in DisplayOptions :
          /\ opts' = o
          /\ table' \in SummaryTables(mp, o)
    /\ pc' = "table"
    /\ UNCHANGED <<input, mp, top, arg, ret, generator>>

\* A variant that shortens the names in the buckets themselves.
PrintSummaryTable_TruncatingInPlace ==
    /\ pc = "parsed"
    /\ \E o \in DisplayOptions :
          /\ opts' = o
          /\ table' \in SummaryTables(mp, o)
    /\ mp' = [mp EXCEPT !.buckets =
                [b \in DOMAIN mp.buckets |->
                    [mp.buckets[b] EXCEPT !.Name = DisplayName(mp.buckets[b].Name)]]]
    /\ pc' = "table"
    /\ UNCHANGED <<input, top, arg, ret, generator>>

\* parser.PrintSummaryTable(opts), with the options main read from the
\* command line.
PrintSummaryTable ==
    /\ pc = "parsed"
    /\ \E o \in DisplayOptions :
          /\ opts' = o
          /\ table' \in SummaryTables(mp, o)
    /\ pc' = "table"
    /\ UNCHANGED <<input, mp, top, arg, ret, generator>>

\* parser.PrintTopBuckets(topN, opts)
PrintTopBuckets ==
    /\ pc = "table"
    /\ \E n \in TopNs : top' \in TopBuckets(mp, n, opts)
    /\ pc' = "done"
    /\ UNCHANGED <<input, mp, opts, table, arg, ret, generator>>

Next ==
    \/ ScanLine
    \/ EndOfInput
    \/ OpenError
    \/ ReadError
    \/ PrintSummaryTable
    \/ PrintTopBuckets

Spec == Init /\ [][Next]_vars

\* The parse alone, over a wider set of lines.
NextParse ==
    \/ ScanAnyLine
    \/ EndOfInput

SpecParse == Init /\ [][NextParse]_vars

-----------------------------------------------------------------------------
(* The pure functions, each called on its own: arg is the argument of the  *)
(* call and ret what it returned.                                          *)

\* The strings of at most n bytes over the alphabet.
RECURSIVE StringsUpTo(_, _)
StringsUpTo(alphabet, n) ==
    IF n = 0 THEN {""}
    ELSE LET shorter == StringsUpTo(alphabet, n - 1)
         IN  shorter \cup {c \o t : c \in alphabet, t \in shorter}

\* Range labels: the spellings MinIO reports, and every short string over a
\* digit, a letter, the underscore and a byte that is none of them.
RangeLabels ==
    StringsUpTo({"1", "B", "_", "-"}, MaxLen)
        \cup {"BETWEEN_1024B_AND_1_MB", "BETWEEN_1024_B_AND_1_MB",
              "BETWEEN_1024__B_AND_1MB", "LESS_THAN_1024_B", "LESS_THAN_1024B",
              "GREATER_THAN_512_MB", "GREATER_THAN_512MB", "SINGLE_VERSION",
              "BETWEEN_2_AND_10", "range 2to10"}

\* Trailing tokens: a sign, an integer part, a fraction and an exponent, each
\* present or not, and tokens at the ends of the int64 and float64 ranges.
ValueTokens ==
    {sign \o int \o frac \o exp :
        sign \in {"", "-", "+"}, int \in {"", "0", "5", "12"},
        frac \in {"", ".", ".5", ".67"}, exp \in {"", "e+08", "e-1", "E2", "e"}}
        \cup {"NaN", "nan", "+Inf", "-Inf", "Infinity", "abc", "n/a", "1_000",
              "9223372036854775807", "9223372036854775808",
              "-9223372036854775808", "-9223372036854775809",
              "9.2e18", "9.3e18", "1e19", "-1e19", "1e400",
              "1.4371253755e+11", "5 1700000000"}

ValueLines ==
    {"minio_cluster_usage_total_bytes{server=\"s1\"} " \o t : t \in ValueTokens}
        \cup {"", "   ", "\t7\t", "42"}

\* The maps with keys among keys and counts among counts.
Dists(keys, counts) == UNION {[d -> counts] : d \in SUBSET keys}

CountValues == {0 - 1, 0, 1, 3}

VersionDists ==
    Dists({"UNVERSIONED", "SINGLE_VERSION", "BETWEEN_2_AND_10",
           "GREATER_THAN_10000"}, CountValues)
        \cup {[k \in {"SINGLE_VERSION"} |-> 5], [k \in {"UNVERSIONED"} |-> 3],
              [k \in {"SINGLE_VERSION", "BETWEEN_2_AND_10"} |->
                    IF k = "SINGLE_VERSION" THEN 5 ELSE 1]}

SizeDists ==
    Dists({"LESS_THAN_1024_B", "BETWEEN_1024_B_AND_1_MB",
           "BETWEEN_1_MB_AND_10_MB", "GREATER_THAN_512_MB",
           "BETWEEN_1_KB_AND_2_KB"}, CountValues)

InitCall(args) ==
    /\ pc = "call"
    /\ Idle
    /\ arg \in args
    /\ ret = ""

Return ==
    /\ pc = "call"
    /\ pc' = "ret"
    /\ UNCHANGED <<input, mp, opts, table, top, arg, generator>>

CallNormalizeRange == Return /\ ret' = normalizeRange(arg)

SpecNormalize == InitCall(RangeLabels) /\ [][CallNormalizeRange]_vars

CallExtractValue == Return /\ ret' \in extractValue(arg)

SpecValue == InitCall(ValueLines) /\ [][CallExtractValue]_vars

CallGetVersioningStatus == Return /\ ret' = getVersioningStatus(arg)

SpecVersioning == InitCall(VersionDists) /\ [][CallGetVersioningStatus]_vars

CallGetSizeStatus == Return /\ ret' = getSizeStatus(arg)

SpecSize == InitCall(SizeDists) /\ [][CallGetSizeStatus]_vars

-----------------------------------------------------------------------------
(* What the lines read so far say, computed from the input alone.          *)

\* The value of a line whose trailing token has one reading.
ValueOf(text) == Atoi(CHOOSE v \in extractValue(TrimSpace(text)) : TRUE)

\* The bucket labels of the lines.
BucketLabels(lines) == {extractBucketName(lines[i]) : i \in 1..Len(lines)} \ {""}

\* The sum of the values of the lines that carry the bucket label (no bucket
\* label when bucketName is "") and contain the family name.
RECURSIVE SumOfValues(_, _, _)
SumOfValues(lines, bucketName, family) ==
    IF lines = <<>> THEN 0
    ELSE (IF /\ Contains(lines[1], family)
             /\ extractBucketName(lines[1]) = bucketName
          THEN ValueOf(lines[1]) ELSE 0)
             + SumOfValues(Tail(lines), bucketName, family)

\* Two spellings of one range: the same text when the underscores are left out.
SameRange(r, k) == ReplaceAll(r, "_", "") = ReplaceAll(k, "_", "")

\* The lines of the family that report the range k for the bucket.
RangeLines(lines, bucketName, family, k) ==
    SelectSeq(lines, LAMBDA l : /\ Contains(l, family)
                                /\ extractBucketName(l) = bucketName
                                /\ extractRange(l) # ""
                                /\ SameRange(extractRange(l), k))

\* No digit directly followed by a letter, and no double underscore.
IsNormalized(k) ==
    /\ \A i \in 1..(Len(k) - 1) : ~(isDigit(At(k, i)) /\ isLetter(At(k, i + 1)))
    /\ \A i \in 1..(Len(k) - 1) : ~(At(k, i) = "_" /\ At(k, i + 1) = "_")

-----------------------------------------------------------------------------
(* C1 *)

\* C1: after any sequence of lines, the ObjectCount of every bucket named in
\* the input is the sum of the values of all the lines that carry its label
\* and contain minio_bucket_usage_object_total, and its SizeBytes the sum for
\* minio_bucket_usage_total_bytes: no line overwrites what an earlier one gave.
C1_Additivity ==
    pc = "parsed" => \A b \in BucketLabels(input) :
        /\ b \in DOMAIN mp.buckets
        /\ mp.buckets[b].ObjectCount =
               SumOfValues(input, b, "minio_bucket_usage_object_total")
        /\ mp.buckets[b].SizeBytes =
               SumOfValues(input, b, "minio_bucket_usage_total_bytes")

\* Two servers have reported the object total of bucket a, 2 and 3.
C1_TwoServersSummed ==
    /\ pc = "parsed"
    /\ "a" \in DOMAIN mp.buckets
    /\ Len(mp.buckets["a"].Servers) = 2
    /\ mp.buckets["a"].ObjectCount = 5
    /\ Len(input) = 2

-----------------------------------------------------------------------------
(* C2 *)

\* C2: normalizing what normalizeRange returned gives the same label again,
\* and a label spelled without the underscore between a digit and the letter
\* after it normalizes to the same key as the label spelled with it.
C2_NormalizeRangeIdempotent ==
    pc = "ret" =>
        /\ normalizeRange(ret) = ret
        /\ \A i \in 1..(Len(arg) - 2) :
              (isDigit(At(arg, i)) /\ At(arg, i + 1) = "_"
                                   /\ isLetter(At(arg, i + 2)))
                  => normalizeRange(SubSeq(arg, 1, i)
                                        \o SubSeq(arg, i + 2, Len(arg))) = ret

\* The spelling of the README's example has been normalized.
C2_SpellingNormalized ==
    /\ pc = "ret"
    /\ arg = "BETWEEN_1024B_AND_1_MB"
    /\ ret = "BETWEEN_1024_B_AND_1_MB"

-----------------------------------------------------------------------------
(* C3 *)

\* The distribution maps of the aggregate, each with the bucket label ("" for
\* the cluster) and the family of the lines that feed it.
Distributions ==
    {<<mp.ClusterVersionDist, "", "minio_cluster_objects_version_distribution">>,
     <<mp.ClusterSizeDist, "", "minio_cluster_objects_size_distribution">>}
        \cup {<<mp.buckets[b].VersionDistribution, b,
                "minio_bucket_objects_version_distribution">> :
                  b \in DOMAIN mp.buckets}
        \cup {<<mp.buckets[b].SizeDistribution, b,
                "minio_bucket_objects_size_distribution">> :
                  b \in DOMAIN mp.buckets}

\* C3: in every state of the parse, every key of every distribution map, of a
\* bucket or of the cluster, has no digit directly followed by a letter and
\* no double underscore, and the key BETWEEN_1024B_AND_1_MB is in none of
\* them; when the input has been read, the entry of a key is the sum of the
\* values reported under every spelling of its range.
C3_KeysNormalized ==
    \A d \in Distributions :
        \A k \in DOMAIN d[1] :
            /\ IsNormalized(k)
            /\ k # "BETWEEN_1024B_AND_1_MB"
            /\ pc = "parsed" =>
                  d[1][k] = SumOfValues(RangeLines(input, d[2], d[3], k),
                                        d[2], d[3])

\* Bucket b's 1024 B to 1 MB range was reported under two spellings, 100 and 1.
C3_SpellingsAccumulated ==
    /\ pc = "parsed"
    /\ "b" \in DOMAIN mp.buckets
    /\ DOMAIN mp.buckets["b"].SizeDistribution = {"BETWEEN_1024_B_AND_1_MB"}
    /\ mp.buckets["b"].SizeDistribution["BETWEEN_1024_B_AND_1_MB"] = 101

-----------------------------------------------------------------------------
(* C4 *)

\* The value the trailing token denotes: the integer of a decimal integer,
\* the integer part of a finite floating-point literal, 0 for any other token
\* and for a line without a token.
DenotedValue(line) ==
    IF NonSpace(line) = {} THEN "0"
    ELSE LET tok    == LastField(line)
             signed == At(tok, 1) \in {"+", "-"}
             body   == IF signed THEN SubSeq(tok, 2, Len(tok)) ELSE tok
             f      == ScanFloat(tok)
         IN  IF IsDigitString(body) THEN Decimal(At(tok, 1) = "-", body)
             ELSE IF f.ok /\ f.class = "finite"
             THEN Decimal(f.neg, Truncated(f.mag, f.exp10))
             ELSE "0"

\* Whether the trailing token of the line is an infinity.
IsInfinity(line) ==
    NonSpace(line) # {} /\ ScanFloat(LastField(line)).ok
                        /\ ScanFloat(LastField(line)).class = "inf"

\* C4: extractValue returns the integer its line's last token denotes: the
\* token as an integer when it is a decimal integer, the number truncated
\* toward zero when it is a floating-point literal, 0 otherwise (nothing is
\* said here of an infinity, which has no integer part).
C4_ExtractValueDenoted ==
    (pc = "ret" /\ ~IsInfinity(arg)) => ret = DenotedValue(arg)

\* extractValue returns the denoted value whenever that value is an int64 and
\* the token a number.
ExtractValueWithinInt64 ==
    (pc = "ret" /\ ~ParseInt(DenotedValue(arg)).err
                /\ ~IsInfinity(arg)
                /\ (NonSpace(arg) = {} \/ ToLower(LastField(arg)) # "nan"))
        => ret = DenotedValue(arg)

-----------------------------------------------------------------------------
(* C5 *)

ClusterFamilies ==
    {"minio_cluster_usage_object_total", "minio_cluster_usage_total_bytes",
     "minio_cluster_objects_version_distribution",
     "minio_cluster_objects_size_distribution"}

\* No line carries a bucket label and some line is of a cluster family.
ClusterOnly(lines) ==
    /\ BucketLabels(lines) = {}
    /\ \E i \in 1..Len(lines) :
          /\ ~Skipped(TrimSpace(lines[i]))
          /\ \E family \in ClusterFamilies : Contains(lines[i], family)

ClusterObjectTotal(lines) ==
    SumOfValues(lines, "", "minio_cluster_usage_object_total")

ClusterByteTotal(lines) ==
    SumOfValues(lines, "", "minio_cluster_usage_total_bytes")

\* The cluster lines leave data: a positive total, or a distribution line
\* with a range label.
LeavesClusterData(lines) ==
    \/ ClusterObjectTotal(lines) > 0
    \/ ClusterByteTotal(lines) > 0
    \/ \E i \in 1..Len(lines) :
          /\ ~Skipped(TrimSpace(lines[i]))
          /\ extractRange(lines[i]) # ""
          /\ \/ Contains(lines[i], "minio_cluster_objects_version_distribution")
             \/ Contains(lines[i], "minio_cluster_objects_size_distribution")

\* The rows are the one row of the cluster aggregate, with the totals of the
\* cluster lines read.
OnlyClusterRow(rows) ==
    /\ Len(rows) = 1
    /\ rows[1].name = "<cluster-aggregate>"
    /\ rows[1].objects = ClusterObjectTotal(input)
    /\ rows[1].bytes = ClusterByteTotal(input)

\* C5 as stated: for an input without bucket labels that holds cluster lines,
\* the table and the Top-N view each render exactly the cluster-aggregate row.
C5_ClusterFallbackAsStated ==
    (pc = "done" /\ ClusterOnly(input)) =>
        /\ OnlyClusterRow(table.rows)
        /\ OnlyClusterRow(top.entries)

\* C5, amended: for an input without bucket labels whose cluster lines leave
\* data, the table renders exactly the cluster-aggregate row with the summed
\* totals, and the Top-N view renders that row when N >= 1 and no row when
\* N <= 0; when the cluster lines leave no data both views print
\* "No bucket data found".
C5_ClusterFallback ==
    (pc = "done" /\ ClusterOnly(input)) =>
        IF LeavesClusterData(input)
        THEN /\ OnlyClusterRow(table.rows)
             /\ top.n >= 1 => OnlyClusterRow(top.entries)
             /\ top.n <= 0 => top.entries = <<>>
             /\ top.msgs = <<>>
        ELSE /\ table.msgs = <<"No bucket data found">> /\ table.rows = <<>>
             /\ top.msgs = <<"No bucket data found">> /\ top.entries = <<>>

\* The test's input has been reported: 12345 objects, 567000000 bytes.
C5_ClusterRowRendered ==
    /\ pc = "done"
    /\ ClusterOnly(input)
    /\ Len(table.rows) = 1 /\ Len(top.entries) = 1
    /\ table.rows[1].name = "<cluster-aggregate>"
    /\ table.rows[1].objects = 12345 /\ table.rows[1].bytes = 567000000
    /\ top.entries[1].objects = 12345 /\ top.entries[1].bytes = 567000000

-----------------------------------------------------------------------------
(* C6 *)

\* A line that is read and whose trailing token is no number.
Malformed(text) ==
    /\ ~Skipped(TrimSpace(text))
    /\ ParseInt(LastField(TrimSpace(text))).err
    /\ ~ScanFloat(LastField(TrimSpace(text))).ok

\* The aggregate after the lines, from m.
RECURSIVE ParseFrom(_, _)
ParseFrom(m, lines) ==
    IF lines = <<>> THEN m
    ELSE ParseFrom(ParseLine(m, lines[1], ValueOf(lines[1])), Tail(lines))

Without(lines, i) == SubSeq(lines, 1, i - 1) \o SubSeq(lines, i + 1, Len(lines))

\* C6: when one line of the input has a trailing token that is no number and
\* the others are valid, the aggregate and what both views print, under every
\* option combination, are those of the input without that line.
C6_MalformedLineResilience ==
    pc = "parsed" =>
        \A i \in 1..Len(input) :
            (/\ Malformed(input[i])
             /\ \A j \in 1..Len(input) : j # i => ~Malformed(input[j]))
                => LET rest == ParseFrom(NewMetricParser, Without(input, i))
                   IN  /\ \A o \in DisplayOptions :
                             /\ SummaryTables(mp, o) = SummaryTables(rest, o)
                             /\ \A n \in TopNs :
                                   TopBuckets(mp, n, o) = TopBuckets(rest, n, o)
                       /\ mp = rest

-----------------------------------------------------------------------------
(* C7 *)

\* C7: the rows of the table are in non-increasing order of bytes, under
\* every option combination, also when the cluster-aggregate row has been
\* force-included among the bucket rows.
C7_TableSorted ==
    pc \in {"table", "done"} =>
        \A i, j \in 1..Len(table.rows) :
            i < j => table.rows[i].bytes >= table.rows[j].bytes

\* The cluster row, appended after buckets a and b, is printed above them.
C7_ClusterRowAmongBuckets ==
    /\ pc = "table"
    /\ opts.Cluster
    /\ Len(table.rows) = 3
    /\ table.rows[1].name = "<cluster-aggregate>"
    /\ table.rows[1].bytes = 567000000
    /\ table.rows[2].bytes = 2000
    /\ table.rows[3].bytes = 7

-----------------------------------------------------------------------------
(* C8 *)

RECURSIVE SumOfRows(_, _)
SumOfRows(rows, objects) ==
    IF rows = <<>> THEN 0
    ELSE (IF objects THEN rows[1].objects ELSE rows[1].bytes)
             + SumOfRows(Tail(rows), objects)

\* C8: whenever the table has rows it has a totals row, whose object total
\* and byte total are the sums over the rows printed above it, the cluster
\* aggregate's included, and whose bucket count is the number of those rows.
C8_TotalsMatchRows ==
    (pc \in {"table", "done"} /\ table.rows # <<>>) =>
        /\ Len(table.totals) = 1
        /\ table.totals[1].buckets = Len(table.rows)
        /\ table.totals[1].objects = SumOfRows(table.rows, TRUE)
        /\ table.totals[1].bytes = SumOfRows(table.rows, FALSE)

\* Totals over buckets a and b and the force-included cluster row.
C8_TotalsWithClusterRow ==
    /\ pc = "table"
    /\ opts.Cluster
    /\ \E i \in 1..Len(table.rows) : table.rows[i].name = "<cluster-aggregate>"
    /\ table.totals[1].buckets = 3
    /\ table.totals[1].objects = 12347
    /\ table.totals[1].bytes = 7

-----------------------------------------------------------------------------
(* C9 *)

\* The sum of the counts of every key other than UNVERSIONED and
\* SINGLE_VERSION.
MultiCount(d) == SumOver(d, DOMAIN d \ {"UNVERSIONED", "SINGLE_VERSION"})

\* The status that the precedence gives, a count c being taken as present
\* when Present(c).
StatusByPrecedence(d, Present(_)) ==
    CASE DOMAIN d = {} -> "Unknown"
      [] DOMAIN d # {} /\ Present(Get(d, "UNVERSIONED"))
                       /\ Get(d, "SINGLE_VERSION") = 0 /\ MultiCount(d) = 0
            -> "Unversioned"
      [] DOMAIN d # {} /\ Present(Get(d, "SINGLE_VERSION")) /\ MultiCount(d) = 0
            -> "Single Version"
      [] DOMAIN d # {} /\ ~(Present(Get(d, "SINGLE_VERSION")) /\ MultiCount(d) = 0)
                       /\ Present(MultiCount(d))
            -> "Multi-Version"
      [] OTHER -> "Mixed"

IsNonzero(c) == c # 0

IsPositive(c) == c > 0

-----------------------------------------------------------------------------
(* C10 *)

SmallCount(d) == SumOver(d, SmallRanges \cap DOMAIN d)

MediumCount(d) == SumOver(d, MediumRanges \cap DOMAIN d)

LargeCount(d) == SumOver(d, LargeRanges \cap DOMAIN d)

SizeTotal(d) == SmallCount(d) + MediumCount(d) + LargeCount(d)

\* part / total * 100 >= pct, for total # 0.
Percent(part, total, pct) ==
    \/ total > 0 /\ 100 * part >= pct * total
    \/ total < 0 /\ 100 * part <= pct * total

\* The status that the thresholds give to a map.
StatusByThresholds(d) ==
    CASE SizeTotal(d) = 0 -> "Empty"
      [] SizeTotal(d) # 0 /\ Percent(SmallCount(d), SizeTotal(d), 80)
            -> "Mostly Small"
      [] SizeTotal(d) # 0 /\ ~Percent(SmallCount(d), SizeTotal(d), 80)
                          /\ Percent(MediumCount(d), SizeTotal(d), 60)
            -> "Mostly Medium"
      [] SizeTotal(d) # 0 /\ ~Percent(SmallCount(d), SizeTotal(d), 80)
                          /\ ~Percent(MediumCount(d), SizeTotal(d), 60)
                          /\ Percent(LargeCount(d), SizeTotal(d), 60)
            -> "Mostly Large"
      [] OTHER -> "Mixed Sizes"

\* C10 as stated: every map, the empty one included, gets the status that the
\* thresholds give, Empty when the total is zero.
C10_SizeStatusAsStated ==
    pc = "ret" => ret = StatusByThresholds(arg)

\* C10, amended: the empty map gets Unknown; every map with a key gets Empty
\* when the total of the small, medium and large counts is zero, else Mostly
\* Small when small / total is at least 80%, else Mostly Medium when
\* medium / total is at least 60%, else Mostly Large when large / total is at
\* least 60%, else Mixed Sizes.
C10_SizeStatus ==
    pc = "ret" =>
        ret = IF DOMAIN arg = {} THEN "Unknown" ELSE StatusByThresholds(arg)

\* Small counts are exactly 80% of the total: 4 of 5.
C10_MostlySmallAtThreshold ==
    /\ pc = "ret"
    /\ SmallCount(arg) = 4
    /\ SizeTotal(arg) = 5
    /\ ret = "Mostly Small"

-----------------------------------------------------------------------------
(* C11 *)

BucketFamilies ==
    {"minio_bucket_usage_object_total", "minio_bucket_usage_total_bytes",
     "minio_bucket_objects_version_distribution",
     "minio_bucket_objects_size_distribution"}

\* A line that is read and names none of the families ParseFile looks for.
Unrecognized(text) ==
    /\ ~Skipped(TrimSpace(text))
    /\ \A family \in BucketFamilies \cup ClusterFamilies : ~Contains(text, family)

\* The line the step has read, when it has read one.
LineRead(P(_)) == Len(input') = Len(input) + 1 /\ P(input'[Len(input')])

\* C11: a step that reads a line of no recognized family leaves the whole
\* aggregate as it was, also when the line carries a bucket label.
C11_UnrecognizedLineDiscarded ==
    [][LineRead(Unrecognized) => mp' = mp]_vars

\* What holds of the code: a line of no recognized family leaves the counters,
\* the distributions and the cluster accumulators as they were; with a bucket
\* label it creates the bucket when new and adds the line's server to it.
UnrecognizedLineEffect ==
    [][LineRead(Unrecognized) =>
          LET line == input'[Len(input')]
              b    == extractBucketName(line)
          IN  IF b = "" THEN mp' = mp
              ELSE /\ DOMAIN mp'.buckets = DOMAIN mp.buckets \cup {b}
                   /\ \A x \in DOMAIN mp.buckets \ {b} :
                         mp'.buckets[x] = mp.buckets[x]
                   /\ mp'.buckets[b] =
                         addServer(IF b \in DOMAIN mp.buckets THEN mp.buckets[b]
                                   ELSE NewBucketSummary(b),
                                   extractServerName(line))
                   /\ [mp' EXCEPT !.buckets = mp.buckets] = mp]_vars

-----------------------------------------------------------------------------
(* C12 *)

\* No count of the map d is smaller in e.
CountsKept(d, e) == \A k \in DOMAIN d : k \in DOMAIN e /\ e[k] >= d[k]

\* C12: from one state of the parse to the next no ObjectCount, SizeBytes or
\* distribution count of a bucket decreases, nor ClusterObjects, ClusterBytes
\* or a count of the cluster distributions.
C12_MonotonicAccumulation ==
    [][/\ mp'.ClusterObjects >= mp.ClusterObjects
       /\ mp'.ClusterBytes >= mp.ClusterBytes
       /\ CountsKept(mp.ClusterVersionDist, mp'.ClusterVersionDist)
       /\ CountsKept(mp.ClusterSizeDist, mp'.ClusterSizeDist)
       /\ \A b \in DOMAIN mp.buckets :
             /\ b \in DOMAIN mp'.buckets
             /\ mp'.buckets[b].ObjectCount >= mp.buckets[b].ObjectCount
             /\ mp'.buckets[b].SizeBytes >= mp.buckets[b].SizeBytes
             /\ CountsKept(mp.buckets[b].VersionDistribution,
                           mp'.buckets[b].VersionDistribution)
             /\ CountsKept(mp.buckets[b].SizeDistribution,
                           mp'.buckets[b].SizeDistribution)]_vars

\* What holds of the code: a step changes a counter by the value of the line
\* read, so that no counter decreases when that value is not negative.
AccumulationBySign ==
    [][LineRead(LAMBDA l : ValueOf(l) >= 0) =>
          /\ mp'.ClusterObjects >= mp.ClusterObjects
          /\ mp'.ClusterBytes >= mp.ClusterBytes
          /\ \A b \in DOMAIN mp.buckets :
                /\ mp'.buckets[b].ObjectCount >= mp.buckets[b].ObjectCount
                /\ mp'.buckets[b].SizeBytes >= mp.buckets[b].SizeBytes]_vars

-----------------------------------------------------------------------------
(* C13 *)

\* Lines of two buckets reported by two servers, in two families, with and
\* without a server label.
ServerLines ==
    {"# TYPE minio_bucket_usage_object_total gauge",
     "minio_bucket_usage_object_total{bucket=\"a\",server=\"s1\"} 2",
     "minio_bucket_usage_object_total{bucket=\"a\",server=\"s2\"} 3",
     "minio_bucket_usage_total_bytes{bucket=\"a\",server=\"s1\"} 2.0e+03",
     "minio_bucket_usage_total_bytes{bucket=\"b\",server=\"s2\"} 7",
     "minio_bucket_usage_total_bytes{bucket=\"b\",server=\"s1\"} 7",
     "minio_bucket_usage_object_total{bucket=\"a\"} 4",
     "minio_cluster_usage_object_total{server=\"s3\"} 12345"}

ScanServerLine == ScanFrom(ServerLines)

NextServers ==
    \/ ScanServerLine
    \/ EndOfInput

SpecServers == Init /\ [][NextServers]_vars

\* The elements of seq in the order of their first occurrence.
RECURSIVE FirstOccurrences(_)
FirstOccurrences(seq) ==
    IF seq = <<>> THEN <<>>
    ELSE LET front == FirstOccurrences(SubSeq(seq, 1, Len(seq) - 1))
             last  == seq[Len(seq)]
         IN  IF \E i \in 1..Len(front) : front[i] = last THEN front
             ELSE Append(front, last)

\* What extractServerName gives for the lines that carry the bucket label, in
\* the order of the lines.
RECURSIVE ServersNamed(_, _)
ServersNamed(lines, bucketName) ==
    IF lines = <<>> THEN <<>>
    ELSE (IF /\ ~Skipped(TrimSpace(lines[1]))
             /\ extractBucketName(lines[1]) = bucketName
          THEN <<extractServerName(lines[1])>> ELSE <<>>)
             \o ServersNamed(Tail(lines), bucketName)

\* C13: the Servers list of every bucket has no duplicates and is, in the
\* order of first appearance, exactly the server label values of the lines
\* that carry the bucket's label.
C13_ServersOfBucket ==
    \A b \in DOMAIN mp.buckets :
        mp.buckets[b].Servers =
            FirstOccurrences(SelectSeq(ServersNamed(input, b),
                                       LAMBDA server : server # ""))

\* What holds of the code: the list is made of what extractServerName gives
\* for the lines of the bucket, the empty string of a line without a server
\* label included.
ServersWithEmptyName ==
    \A b \in DOMAIN mp.buckets :
        /\ mp.buckets[b].Servers = FirstOccurrences(ServersNamed(input, b))
        /\ \A i, j \in 1..Len(mp.buckets[b].Servers) :
              i # j => mp.buckets[b].Servers[i] # mp.buckets[b].Servers[j]

-----------------------------------------------------------------------------
(* C14 *)

\* The views printed so far are those of the position of the run.
ViewsByPosition ==
    /\ table.printed <=> pc \in {"table", "done"}
    /\ top.printed <=> pc = "done"

\* C14: the table is printed only once ParseFile has read the whole input and
\* returned nil, and the Top-N section only after the table; no line is read
\* once a view is printed; a run whose input cannot be opened or read is
\* over, with neither view printed.
C14_ParseBeforeReport ==
    /\ [](ViewsByPosition /\ (pc = "failed" => ~table.printed /\ ~top.printed))
    /\ [][/\ (table'.printed /\ ~table.printed) => pc = "parsed"
          /\ (top'.printed /\ ~top.printed) => (pc = "table" /\ table.printed)
          /\ (table.printed \/ top.printed) => (input' = input /\ mp' = mp)
          /\ pc # "failed"]_vars

\* Both views of a run over a full input are printed.
C14_BothViewsPrinted ==
    /\ pc = "done"
    /\ Len(input) = MaxLines
    /\ table.printed /\ table.rows # <<>>
    /\ top.printed /\ top.entries # <<>>

\* A read has failed after two lines, and nothing is printed.
ReadFailedAfterLines ==
    pc = "failed" /\ Len(input) = 2 /\ ~table.printed /\ ~top.printed

-----------------------------------------------------------------------------
(* The run of the tool over lines at the edges of the format: lines that   *)
(* give no data, a bucket named as the cluster row is, a bucket whose name *)
(* is longer than the name column.                                         *)

LongName == "bucket-with-a-name-of-forty-one-bytes-xyz"

EdgeLines ==
    {"",
     "# HELP minio_bucket_usage_total_bytes Total bucket size in bytes",
     "minio_node_uptime_seconds{server=\"s1\"} 9",
     "minio_bucket_usage_object_total{server=\"s1\"} 5",
     "minio_bucket_usage_total_bytes{bucket=\"<cluster-aggregate>\",server=\"s1\"} 7",
     "minio_bucket_usage_total_bytes{bucket=\"" \o LongName \o "\",server=\"s1\"} 2048",
     "minio_cluster_usage_total_bytes{server=\"s1\"} 5.67e+08"}

ScanEdgeLine == ScanFrom(EdgeLines)

NextEdge ==
    \/ ScanEdgeLine
    \/ EndOfInput
    \/ OpenError
    \/ ReadError
    \/ PrintSummaryTable
    \/ PrintTopBuckets

SpecEdge == Init /\ [][NextEdge]_vars

-----------------------------------------------------------------------------
(* C15 *)

\* No line read carries a bucket label or names a cluster family.
NoDataLines(lines) ==
    \A i \in 1..Len(lines) :
        \/ Skipped(TrimSpace(lines[i]))
        \/ /\ extractBucketName(lines[i]) = ""
           /\ \A family \in ClusterFamilies : ~Contains(lines[i], family)

\* C15: when the input held no line with a bucket label and no line of a
\* cluster family, each view prints "No bucket data found" and no header, no
\* row and no totals row.
C15_EmptyResult ==
    (NoDataLines(input) /\ pc \in {"table", "done"}) =>
        /\ table.msgs = <<"No bucket data found">>
        /\ table.header = <<>> /\ table.rows = <<>> /\ table.totals = <<>>
        /\ pc = "done" =>
              /\ top.msgs = <<"No bucket data found">>
              /\ top.title = "" /\ top.entries = <<>>

\* Three lines that give no data have been read and both views printed.
C15_NothingToReport ==
    /\ pc = "done"
    /\ Len(input) = 3
    /\ NoDataLines(input)
    /\ \E i \in 1..3 : input[i] = "minio_bucket_usage_object_total{server=\"s1\"} 5"
    /\ \E i \in 1..3 : input[i] = "minio_node_uptime_seconds{server=\"s1\"} 9"
    /\ table.msgs = <<"No bucket data found">>
    /\ top.msgs = <<"No bucket data found">>

-----------------------------------------------------------------------------
(* C16 *)

\* The rows a view has to show: a name and a size for each bucket, and for
\* the cluster when its row is due.
AvailableRows(m, o) ==
    {[name |-> m.buckets[b].Name, bytes |-> m.buckets[b].SizeBytes] :
        b \in DOMAIN m.buckets}
    \cup
    (IF /\ HasClusterData(m)
        /\ (DOMAIN m.buckets = {} \/ o.Cluster)
        /\ "<cluster-aggregate>" \notin DOMAIN m.buckets
     THEN {[name |-> "<cluster-aggregate>", bytes |-> m.ClusterBytes]}
     ELSE {})

Shown(entries) ==
    {[name |-> entries[i].name, bytes |-> entries[i].bytes] :
        i \in 1..Len(entries)}

\* C16: PrintTopBuckets(n) shows min(n, number of rows) entries, none when n
\* is 0 or less, each a different row, and no row left out is larger than a
\* row shown.
C16_TopNLargest ==
    pc = "done" =>
        LET rows  == AvailableRows(mp, opts)
            count == Cardinality(rows)
        IN  /\ Len(top.entries) =
                  IF top.n <= 0 THEN 0
                  ELSE IF top.n < count THEN top.n ELSE count
            /\ Shown(top.entries) \subseteq rows
            /\ Cardinality(Shown(top.entries)) = Len(top.entries)
            /\ \A shown \in Shown(top.entries) :
                  \A omitted \in rows \ Shown(top.entries) :
                      shown.bytes >= omitted.bytes

\* Two of three rows are shown, and the row left out is smaller than both.
C16_TwoOfThree ==
    /\ pc = "done"
    /\ top.n = 2
    /\ Len(top.entries) = 2
    /\ Cardinality(AvailableRows(mp, opts)) = 3
    /\ \E omitted \in AvailableRows(mp, opts) \ Shown(top.entries) :
          /\ omitted.bytes > 0
          /\ top.entries[2].bytes > omitted.bytes

\* The views for a request of no entry and of more entries than rows.
TopNClipped ==
    pc = "done" =>
        /\ top.n <= 0 => top.entries = <<>>
        /\ top.n = 5 => Len(top.entries) = Cardinality(AvailableRows(mp, opts))

-----------------------------------------------------------------------------
(* C17 *)

\* The rows of a view that bear the name of the cluster row.
ClusterNamed(rows) ==
    {i \in 1..Len(rows) : rows[i].name = "<cluster-aggregate>"}

\* Every bucket of the parser has its row among rows; Name gives the name a
\* view prints for a bucket.
BucketRowsIn(rows, Name(_)) ==
    \A b \in DOMAIN mp.buckets :
        \E i \in 1..Len(rows) :
            /\ rows[i].name = Name(mp.buckets[b].Name)
            /\ rows[i].objects = mp.buckets[b].ObjectCount
            /\ rows[i].bytes = mp.buckets[b].SizeBytes

\* Every row is the row of a bucket of the parser.
OnlyBucketRows(rows, Name(_)) ==
    \A i \in 1..Len(rows) :
        \E b \in DOMAIN mp.buckets :
            /\ rows[i].name = Name(mp.buckets[b].Name)
            /\ rows[i].objects = mp.buckets[b].ObjectCount
            /\ rows[i].bytes = mp.buckets[b].SizeBytes

\* rows are the rows of all buckets and one more, which carries the totals
\* of the cluster.
OneClusterRow(rows, Name(_)) ==
    /\ Len(rows) = Cardinality(DOMAIN mp.buckets) + 1
    /\ BucketRowsIn(rows, Name)
    /\ \E i \in 1..Len(rows) :
          /\ ClusterNamed(rows) = {i}
          /\ rows[i].objects = mp.ClusterObjects
          /\ rows[i].bytes = mp.ClusterBytes

FullName(bucketName) == bucketName

\* C17: with the Cluster option set and cluster data read, each view has
\* the rows of all buckets and exactly one row of the cluster, with the
\* cluster's object count and size; with the option not set and a bucket
\* present, no view has a cluster row.
C17_ForceInclude ==
    pc = "done" =>
        /\ (opts.Cluster /\ HasClusterData(mp)) =>
              /\ OneClusterRow(table.rows, DisplayName)
              /\ OneClusterRow(top.entries, FullName)
        /\ (~opts.Cluster /\ DOMAIN mp.buckets # {}) =>
              /\ OnlyBucketRows(table.rows, DisplayName)
              /\ OnlyBucketRows(top.entries, FullName)

\* What holds of the code: the cluster row is in the table when no bucket
\* bears its name, and in the Top-N section when moreover n reaches the
\* number of rows; without the option only rows of buckets are shown.
ForceIncludeWhenNameFree ==
    pc = "done" =>
        /\ (/\ opts.Cluster
            /\ HasClusterData(mp)
            /\ "<cluster-aggregate>" \notin DOMAIN mp.buckets) =>
              /\ OneClusterRow(table.rows, DisplayName)
              /\ top.n > Cardinality(DOMAIN mp.buckets) =>
                    OneClusterRow(top.entries, FullName)
        /\ (~opts.Cluster /\ DOMAIN mp.buckets # {}) =>
              /\ OnlyBucketRows(table.rows, DisplayName)
              /\ OnlyBucketRows(top.entries, FullName)

\* The option is set, cluster data was read, and a bucket bears the name of
\* the cluster row: the table shows the bucket under that name and no row
\* with the totals of the cluster.
ClusterRowNameTaken ==
    /\ pc = "done"
    /\ opts.Cluster
    /\ HasClusterData(mp)
    /\ "<cluster-aggregate>" \in DOMAIN mp.buckets
    /\ \A i \in 1..Len(table.rows) : table.rows[i].bytes # mp.ClusterBytes

-----------------------------------------------------------------------------
(* C18 *)

\* a <= b, for byte counts written to the base 1024.
WideLE(a, b) ==
    \/ Len(a) < Len(b)
    \/ /\ Len(a) = Len(b)
       /\ \/ a = b
          \/ \E i \in 1..Len(a) :
                /\ a[i] < b[i]
                /\ \A j \in 1..(i - 1) : a[j] = b[j]

\* 1024^k
WidePower(k) == <<1>> \o [i \in 1..k |-> 0]

\* The byte counts formatBytes is called with: those of int64 whose digits
\* to the base 1024 are the least, the greatest, 1 or 7.
ByteCounts ==
    {<<0>>} \cup
    {b \in UNION {[1..k -> {0, 1, 7, unit - 1}] : k \in 1..Len(WideMaxInt64)} :
        b[1] # 0 /\ WideLE(b, WideMaxInt64)}

CallFormatBytes == Return /\ ret' = formatBytesWide(arg)

SpecFormat == InitCall(ByteCounts) /\ [][CallFormatBytes]_vars

\* The value of a byte count of at most three digits, which the model's
\* integers hold.
NarrowValue(b) ==
    IF Len(b) = 1 THEN b[1]
    ELSE IF Len(b) = 2 THEN b[1] * unit + b[2]
    ELSE (b[1] * unit + b[2]) * unit + b[3]

EndsWith(s, suffix) ==
    /\ Len(s) >= Len(suffix)
    /\ SubSeq(s, Len(s) - Len(suffix) + 1, Len(s)) = suffix

\* C18: formatBytes prints 0 <= b < 1024 as the integer b and " B", with no
\* decimal; for every b >= 1024 of int64 the unit index e is at most 5, so
\* that "KMGTPE"[e] is in range, and 1024^(e+1) <= b < 1024^(e+2).
C18_UnitIndex ==
    pc = "ret" =>
        /\ ~ret.panic
        /\ ~WideLE(WidePower(1), arg) =>
              /\ ~ret.decimal
              /\ ret.suffix = " B"
              /\ formatBytes(arg[1]) = Itoa(arg[1]) \o " B"
        /\ WideLE(WidePower(1), arg) =>
              /\ ret.decimal
              /\ ret.exp \in 0..5
              /\ ret.suffix = " " \o At("KMGTPE", ret.exp + 1) \o "B"
              /\ WideLE(WidePower(ret.exp + 1), arg)
              /\ ~WideLE(WidePower(ret.exp + 2), arg)
        /\ Len(arg) <= 3 => EndsWith(formatBytes(NarrowValue(arg)), ret.suffix)

\* The greatest int64 is printed in EB, with the last letter of the table.
C18_MaxInt64InExabytes ==
    /\ pc = "ret"
    /\ arg = WideMaxInt64
    /\ ret.exp = 5
    /\ ret.suffix = " EB"

-----------------------------------------------------------------------------
(* C19 *)

\* The name of 37 bytes and "..." that the table shows for a name of more
\* than 40.
Shortened(bucketName) == SubSeq(bucketName, 1, 37) \o "..."

\* C19: PrintSummaryTable and PrintTopBuckets, whatever the options, leave
\* the buckets (names, counters, servers, distributions) and the cluster
\* accumulators as they were; a name of more than 40 bytes is shortened to
\* 37 and "..." in the table, and the cluster row is added, in the printed
\* output only.
C19_RenderingReadOnly ==
    /\ [][(table' # table \/ top' # top) => mp' = mp]_vars
    /\ [](pc \in {"table", "done"} =>
            /\ \A b \in DOMAIN mp.buckets :
                  /\ mp.buckets[b].Name = b
                  /\ \E i \in 1..Len(table.rows) :
                        table.rows[i].name =
                            IF Len(b) > 40 THEN Shortened(b) ELSE b
            /\ \A i \in ClusterNamed(table.rows) :
                  "<cluster-aggregate>" \in DOMAIN mp.buckets
                      <=> table.rows[i].bytes # mp.ClusterBytes)

\* Both views are printed, the long name is shortened in the table, the
\* table has the cluster row, and the parser holds the long name alone.
C19_LongNameKept ==
    /\ pc = "done"
    /\ opts.Cluster
    /\ DOMAIN mp.buckets = {LongName}
    /\ mp.buckets[LongName].Name = LongName
    /\ Len(table.rows) = 2
    /\ \E i \in 1..2 : table.rows[i].name = Shortened(LongName)
    /\ \E i \in 1..2 : table.rows[i].name = "<cluster-aggregate>"
    /\ Len(top.entries) = 2
    /\ \E i \in 1..2 : top.entries[i].name = LongName

-----------------------------------------------------------------------------
(* The S3 data generator: runClient starts printStats as a goroutine and   *)
(* runs runOperations itself; both use m.stats.  A step of the model is    *)
(* one access to a field of Stats or one pass through a select.            *)

\* The most operations runOperations performs in a modelled run.
MaxOps == 2

InitGenerator ==
    /\ pc = "generator"
    /\ Idle
    /\ arg = ""
    /\ ret = ""

\* ctx := context.Background(), with a deadline when config.Duration > 0;
\* go minioClient.printStats(ctx); minioClient.runOperations(ctx), with the
\* config.OperationDelay of the command line: 1 stands for a positive
\* delay, 0 for one that is not.
StartPrinter ==
    /\ loop.pc = "start"
    /\ ctx' \in {"background", "timeout"}
    /\ \E delay \in {0, 1} :
          loop' = [loop EXCEPT !.pc = "ticker", !.delay = delay]
    /\ printer' = [printer EXCEPT !.pc = "select"]
    /\ UNCHANGED <<tool, stats, store, lastOp>>

\* ticker := time.NewTicker(m.config.OperationDelay), which panics when the
\* duration is not positive; the panic ends the process.
NewTicker ==
    /\ loop.pc = "ticker"
    /\ IF loop.delay > 0
       THEN /\ loop' = [loop EXCEPT !.pc = "select"]
            /\ UNCHANGED printer
       ELSE /\ loop' = [loop EXCEPT !.pc = "panic"]
            /\ printer' = [printer EXCEPT !.pc = "exit"]
    /\ UNCHANGED <<tool, stats, ctx, store, lastOp>>

\* The deadline of context.WithTimeout(ctx, config.Duration) passes.
Timeout ==
    /\ ctx = "timeout"
    /\ ctx' = "done"
    /\ UNCHANGED <<tool, stats, loop, printer, store, lastOp>>

\* The fields one pass of the loop increments, in order: an operation that
\* succeeds increments its own field; readOperation, overwriteOperation and
\* prefixDeleteOperation end as writeOperation when no object exists;
\* deleteOperation then writes an object first and goes on; an operation
\* that returns an error makes the loop increment ErrorOps.
Increments ==
    {<<StatsFields[i]>> : i \in 1..Len(StatsFields)}
        \cup {<<"WriteOps", "DeleteOps">>, <<"WriteOps", "ErrorOps">>}

\* runOperations, case <-ticker.C: an operation is chosen and performed.
OperationTick ==
    /\ loop.pc = "select"
    /\ loop.ops < MaxOps
    /\ \E fields \in Increments :
          loop' = [loop EXCEPT !.pc = "load", !.todo = fields, !.ops = @ + 1]
    /\ UNCHANGED <<tool, stats, ctx, printer, store, lastOp>>

\* m.stats.X++ is a read of the field followed by a write.
LoadField ==
    /\ loop.pc = "load"
    /\ loop' = [loop EXCEPT !.pc = "store", !.tmp = stats[Head(loop.todo)]]
    /\ UNCHANGED <<tool, stats, ctx, printer, store, lastOp>>

StoreField ==
    /\ loop.pc = "store"
    /\ stats' = [stats EXCEPT ![Head(loop.todo)] = loop.tmp + 1]
    /\ loop' = [loop EXCEPT !.todo = Tail(@),
                            !.pc = IF Tail(loop.todo) = <<>>
                                   THEN "select" ELSE "load"]
    /\ UNCHANGED <<tool, ctx, printer, store, lastOp>>

\* runOperations, case <-ctx.Done(): return
OperationsDone ==
    /\ loop.pc = "select"
    /\ ctx = "done"
    /\ loop' = [loop EXCEPT !.pc = "final"]
    /\ UNCHANGED <<tool, stats, ctx, printer, store, lastOp>>

\* The numbers printFinalStats prints for the Stats s: the seven fields in
\* the order of StatsFields, then total.
FinalReport(s) ==
    LET total == s.ReadOps + s.WriteOps + s.OverwriteOps + s.DeleteOps
                     + s.PrefixDeleteOps + s.MultipartOps
    IN  [i \in 1..Len(StatsFields) |-> s[StatsFields[i]]] \o <<total>>

\* printFinalStats, and the return of runClient, which ends the process and
\* with it the goroutine of printStats.
PrintFinalStats ==
    /\ loop.pc = "final"
    /\ loop' = [loop EXCEPT !.pc = "exit", !.final = FinalReport(stats)]
    /\ printer' = [printer EXCEPT !.pc = "exit"]
    /\ UNCHANGED <<tool, stats, ctx, store, lastOp>>

\* printStats, case <-ticker.C: the arguments of fmt.Printf are read one
\* field after the other.
StatsTick ==
    /\ printer.pc = "select"
    /\ printer' = [printer EXCEPT !.pc = "read", !.next = 1, !.seen = <<>>]
    /\ UNCHANGED <<tool, stats, ctx, loop, store, lastOp>>

ReadField ==
    /\ printer.pc = "read"
    /\ printer' = [printer EXCEPT
                      !.seen = Append(@, stats[StatsFields[printer.next]]),
                      !.next = @ + 1,
                      !.pc = IF printer.next = Len(StatsFields)
                             THEN "print" ELSE "read"]
    /\ UNCHANGED <<tool, stats, ctx, loop, store, lastOp>>

\* fmt.Printf("\n[STATS] Read=%d, ...")
PrintStatsLine ==
    /\ printer.pc = "print"
    /\ printer' = [printer EXCEPT !.pc = "select", !.line = printer.seen,
                                  !.seen = <<>>, !.next = 1]
    /\ UNCHANGED <<tool, stats, ctx, loop, store, lastOp>>

\* printStats, case <-ctx.Done(): return
PrinterDone ==
    /\ printer.pc = "select"
    /\ ctx = "done"
    /\ printer' = [printer EXCEPT !.pc = "returned"]
    /\ UNCHANGED <<tool, stats, ctx, loop, store, lastOp>>

NextGenerator ==
    \/ StartPrinter
    \/ NewTicker
    \/ Timeout
    \/ OperationTick
    \/ LoadField
    \/ StoreField
    \/ OperationsDone
    \/ PrintFinalStats
    \/ StatsTick
    \/ ReadField
    \/ PrintStatsLine
    \/ PrinterDone

SpecGenerator == InitGenerator /\ [][NextGenerator]_vars

\* The run under the scheduling the Go runtime gives: the deadline of the
\* context passes, a goroutine that can take a step takes one, an operation
\* that was started returns, and a select that finds ctx.Done() ready again
\* and again takes that case in the end.
SpecTermination ==
    /\ SpecGenerator
    /\ WF_vars(NewTicker)
    /\ WF_vars(Timeout)
    /\ WF_vars(LoadField)
    /\ WF_vars(StoreField)
    /\ SF_vars(OperationsDone)
    /\ WF_vars(PrintFinalStats)

-----------------------------------------------------------------------------
(* C20 *)

\* The next step of runOperations writes a field of Stats and the next step
\* of printStats reads the same field: the two accesses are concurrent, as
\* no lock, channel or atomic operation lies between either of them and the
\* step before it.
DataRace ==
    /\ loop.pc = "store"
    /\ printer.pc = "read"
    /\ StatsFields[printer.next] = Head(loop.todo)

\* C20: the statistics of the generator are thread-safe: in no interleaving
\* of runOperations and printStats is a field of Stats read while it is
\* written without synchronization.
C20_StatsThreadSafe == ~DataRace

RECURSIVE SumOfFields(_)
SumOfFields(n) ==
    IF n = 0 THEN 0 ELSE SumOfFields(n - 1) + stats[StatsFields[n]]

\* What holds of the code: runOperations is the only writer, so no
\* increment is lost: between two operations the fields count every
\* operation performed, and no printed value exceeds its field.
StatsCountOperations ==
    /\ (loop.pc \in {"select", "final", "exit"}) =>
          /\ SumOfFields(Len(StatsFields)) >= loop.ops
          /\ SumOfFields(Len(StatsFields)) <= 2 * loop.ops
    /\ \A i \in 1..Len(printer.line) : printer.line[i] <= stats[StatsFields[i]]

\* runOperations has read WriteOps and is about to write it while printStats
\* is about to read it.
RaceOnWriteOps ==
    /\ DataRace
    /\ Head(loop.todo) = "WriteOps"
    /\ ctx # "done"

-----------------------------------------------------------------------------
(* The operations of the generator on the store.  An operation is one step *)
(* here; a remote call may fail.  The store is that of the configured      *)
(* buckets and holds the objects listObjects returns: those whose key      *)
(* contains the object prefix.  No other client writes to the buckets.     *)

\* The most objects the modelled store holds.
MaxObjects == 2

\* The key generateObjectName gives a new object: one no object bears.
NewKey(st) == CHOOSE k \in 1..(MaxObjects + 1) : k \notin st /\ \A j \in 1..(k - 1) : j \in st

\* What an operation that did nothing and returned an error leaves.
Failed(st) ==
    [inc |-> <<>>, store |-> st, created |-> {}, deleted |-> {}, err |-> TRUE]

\* PutObject of a new object, counted in field.
PutNew(st, field) ==
    IF Cardinality(st) < MaxObjects
    THEN {[inc     |-> <<field>>,
           store   |-> st \cup {NewKey(st)},
           created |-> {NewKey(st)},
           deleted |-> {},
           err     |-> FALSE]}
    ELSE {}

\* A variant that does not count the write.
writeOperation_Uncounted(st) ==
    {Failed(st)} \cup {[r EXCEPT !.inc = <<>>] : r \in PutNew(st, "WriteOps")}

\* writeOperation: the outcomes of the call on the store st.
writeOperation(st) == {Failed(st)} \cup PutNew(st, "WriteOps")

\* multipartWriteOperation
multipartWriteOperation(st) == {Failed(st)} \cup PutNew(st, "MultipartOps")

\* An operation on an object that exists and stays, counted in field.
OnExisting(st, field) ==
    {Failed(st),
     [inc |-> <<field>>, store |-> st, created |-> {}, deleted |-> {}, err |-> FALSE]}

\* readOperation: listObjects may fail; with no object the call ends as
\* writeOperation; else GetObject and io.ReadAll.
readOperation(st) ==
    {Failed(st)} \cup
    (IF st = {} THEN writeOperation(st) ELSE OnExisting(st, "ReadOps"))

\* overwriteOperation
overwriteOperation(st) ==
    {Failed(st)} \cup
    (IF st = {} THEN writeOperation(st) ELSE OnExisting(st, "OverwriteOps"))

\* The end of deleteOperation, after r: one of the objects listed is picked
\* and removed, or a call fails.
RemoveOne(r) ==
    {[r EXCEPT !.err = TRUE]} \cup
    {[r EXCEPT !.inc = Append(@, "DeleteOps"),
               !.store = @ \ {k},
               !.deleted = {k}] : k \in r.store}

\* A variant that, with no object, ends as writeOperation.
deleteOperation_CreateOnly(st) ==
    {Failed(st)} \cup
    (IF st = {} THEN writeOperation(st)
     ELSE RemoveOne([Failed(st) EXCEPT !.err = FALSE]))

\* deleteOperation: with no object, writeOperation and a second listObjects
\* come first.
deleteOperation(st) ==
    {Failed(st)} \cup
    (IF st = {}
     THEN UNION {IF w.err THEN {w} ELSE RemoveOne(w) : w \in writeOperation(st)}
     ELSE RemoveOne([Failed(st) EXCEPT !.err = FALSE]))

\* prefixDeleteOperation: with no object the call ends as writeOperation;
\* else the objects of one prefix are removed, less those whose removal
\* fails, or no key has a prefix and the call returns an error.
prefixDeleteOperation(st) ==
    {Failed(st)} \cup
    (IF st = {} THEN writeOperation(st)
     ELSE {[inc     |-> <<"PrefixDeleteOps">>,
            store   |-> st \ gone,
            created |-> {},
            deleted |-> gone,
            err     |-> FALSE] : gone \in SUBSET st})

\* The fields of inc incremented in s, one after the other.
RECURSIVE Bump(_, _)
Bump(s, inc) ==
    IF inc = <<>> THEN s
    ELSE Bump([s EXCEPT ![Head(inc)] = @ + 1], Tail(inc))

\* One pass of the loop of runOperations through case <-ticker.C with the
\* operation op chosen: the operation runs, and the loop increments ErrorOps
\* when it returns an error.
Perform(op, outcomes) ==
    /\ loop.pc = "select"
    /\ loop.ops < MaxOps
    /\ \E r \in outcomes :
          LET inc == IF r.err THEN Append(r.inc, "ErrorOps") ELSE r.inc
          IN  /\ stats' = Bump(stats, inc)
              /\ store' = r.store
              /\ lastOp' = [op      |-> op,
                            inc     |-> inc,
                            created |-> r.created,
                            deleted |-> r.deleted,
                            err     |-> r.err]
    /\ loop' = [loop EXCEPT !.ops = @ + 1]
    /\ UNCHANGED <<tool, ctx, printer>>

WriteOperation == Perform("write", writeOperation(store))

ReadOperation == Perform("read", readOperation(store))

OverwriteOperation == Perform("overwrite", overwriteOperation(store))

DeleteOperation == Perform("delete", deleteOperation(store))

PrefixDeleteOperation == Perform("prefixDelete", prefixDeleteOperation(store))

MultipartWriteOperation == Perform("multipart", multipartWriteOperation(store))

InitOperations ==
    /\ pc = "operations"
    /\ Idle
    /\ arg = ""
    /\ ret = ""

\* runClient, without the steps of printStats.
NextOperations ==
    \/ StartPrinter
    \/ NewTicker
    \/ Timeout
    \/ WriteOperation
    \/ ReadOperation
    \/ OverwriteOperation
    \/ DeleteOperation
    \/ PrefixDeleteOperation
    \/ MultipartWriteOperation
    \/ OperationsDone
    \/ PrintFinalStats

SpecOperations == InitOperations /\ [][NextOperations]_vars

-----------------------------------------------------------------------------
(* The generator's bucket list: parseBuckets and getRandomBucket.          *)

\* strings.Split(s, ","): the pieces of s between its commas, in order.
RECURSIVE SplitCommas(_)
SplitCommas(s) ==
    LET i == Index(s, ",")
    IN  IF i = 0 THEN <<s>>
        ELSE <<SubSeq(s, 1, i - 1)>> \o SplitCommas(SubSeq(s, i + 1, Len(s)))

\* A variant that keeps the empty entries.
parseBuckets_KeepEmpty(Buckets) ==
    IF Buckets = "" THEN <<>>
    ELSE LET buckets == SplitCommas(Buckets)
         IN  [i \in 1..Len(buckets) |-> TrimSpace(buckets[i])]

\* parseBuckets, for m.config.Buckets = Buckets.
parseBuckets(Buckets) ==
    IF Buckets = "" THEN <<>>
    ELSE LET buckets == SplitCommas(Buckets)
             trimmed == [i \in 1..Len(buckets) |-> TrimSpace(buckets[i])]
         IN  SelectSeq(trimmed, LAMBDA bucket : bucket # "")

\* getRandomBucket: the results the call may return.  rand.Int reads from
\* crypto/rand, whose reader does not fail.
getRandomBucket(Buckets) ==
    LET buckets == parseBuckets(Buckets)
    IN  IF Len(buckets) = 0 THEN {[bucket |-> "", err |-> TRUE]}
        ELSE IF Len(buckets) = 1 THEN {[bucket |-> buckets[1], err |-> FALSE]}
        ELSE {[bucket |-> buckets[i], err |-> FALSE] : i \in 1..Len(buckets)}

\* The values of --buckets: those of the tests, and every short string over
\* two letters, the comma and the space.
BucketStrings ==
    {"bucket1", "bucket1,bucket2,bucket3", "bucket1, bucket2 , bucket3",
     "bucket1,,bucket2,", "bucket1,", "test-bucket"}
        \cup StringsUpTo({"a", "b", ",", " "}, MaxLen)

CallParseBuckets ==
    /\ Return
    /\ ret' = [fn |-> "parseBuckets", buckets |-> parseBuckets(arg)]

CallGetRandomBucket ==
    /\ Return
    /\ \E r \in getRandomBucket(arg) :
          ret' = [fn |-> "getRandomBucket", bucket |-> r.bucket, err |-> r.err]

NextBuckets ==
    \/ CallParseBuckets
    \/ CallGetRandomBucket

SpecBuckets == InitCall(BucketStrings) /\ [][NextBuckets]_vars

-----------------------------------------------------------------------------
(* The cluster stats analyzer (stats): main reads the servers and disks of *)
(* the diagnostics, files every disk under its pool, its erasure set and   *)
(* the name of its endpoint and drive, prints them and counts the states.  *)

\* The most disks a server of a modelled input has.
MaxDisks == 1

HasSuffix(s, suffix) ==
    Len(s) >= Len(suffix) /\ SubSeq(s, Len(s) - Len(suffix) + 1, Len(s)) = suffix

\* strings.TrimSuffix
TrimSuffix(s, suffix) ==
    IF HasSuffix(s, suffix) THEN SubSeq(s, 1, Len(s) - Len(suffix)) ELSE s

\* A variant that leaves the endpoint as it is when no domain is given.
trimDomainData_WholeName(endpoint, domainString) ==
    IF domainString = "" THEN endpoint
    ELSE TrimSuffix(TrimSuffix(endpoint, domainString), ".")

\* trimDomainData: strings.SplitN(endpoint, ".", 2)[0] when no domain is
\* given.
trimDomainData(endpoint, domainString) ==
    IF domainString = ""
    THEN IF Index(endpoint, ".") = 0 THEN endpoint
         ELSE SubSeq(endpoint, 1, Index(endpoint, ".") - 1)
    ELSE TrimSuffix(TrimSuffix(endpoint, domainString), ".")

\* endpointNameWithDrive of main.  The Endpoint of a disk is written as
\* what url.Parse makes of it: whether it fails, and the Path it finds.
EndpointNameWithDrive(endpointName, disk) ==
    IF disk.DrivePath = "" /\ ~disk.Endpoint.err
    THEN endpointName \o ":" \o disk.Endpoint.Path
    ELSE endpointName \o ":" \o disk.DrivePath

\* pools of main after the disks of the first n servers and, of server
\* n + 1, the first k disks: the status filed under pool, set and name.
RECURSIVE PoolsAfter(_, _, _, _)
PoolsAfter(servers, domainString, n, k) ==
    IF n = 0 /\ k = 0 THEN <<>>
    ELSE IF k = 0
    THEN PoolsAfter(servers, domainString, n - 1, Len(servers[n].Disks))
    ELSE LET before == PoolsAfter(servers, domainString, n, k - 1)
             disk   == servers[n + 1].Disks[k]
             name   == EndpointNameWithDrive(
                           trimDomainData(servers[n + 1].Endpoint, domainString), disk)
             key    == <<disk.PoolIndex, disk.SetIndex, name>>
         IN  [x \in DOMAIN before \cup {key} |->
                 IF x = key THEN disk.State ELSE before[x]]

\* _driveStatus of main at its end: for each pool, the number of disks
\* printed in each state.
DriveStatusOf(pools) ==
    LET poolIndices == {x[1] : x \in DOMAIN pools}
    IN  [poolIndex \in poolIndices |->
            LET states == {pools[x] : x \in {y \in DOMAIN pools : y[1] = poolIndex}}
            IN  [status \in states |->
                    Cardinality({x \in DOMAIN pools :
                                    x[1] = poolIndex /\ pools[x] = status})]]

\* noDrives of printOverall
RECURSIVE NoDrives(_, _)
NoDrives(servers, n) ==
    IF n = 0 THEN 0 ELSE NoDrives(servers, n - 1) + Len(servers[n].Disks)

\* main: the lines "Pool=, ES=" with their disks, the drive status summary
\* and the drives= figure.
Analyze(info) ==
    LET domainString == TrimSpace(info.domainString)
        n     == Len(info.Servers)
        pools == IF n = 0 THEN <<>>
                 ELSE PoolsAfter(info.Servers, domainString, n - 1,
                                 Len(info.Servers[n].Disks))
    IN  [listed       |-> DOMAIN pools,
         _driveStatus |-> DriveStatusOf(pools),
         noDrives     |-> NoDrives(info.Servers, n)]

\* The disks of the modelled diagnostics.
Disks ==
    {[PoolIndex |-> 0, SetIndex |-> 0, DrivePath |-> "/data1", State |-> "ok",
      Endpoint |-> [err |-> FALSE, Path |-> "/data1"]],
     [PoolIndex |-> 0, SetIndex |-> 0, DrivePath |-> "/data1", State |-> "offline",
      Endpoint |-> [err |-> FALSE, Path |-> "/data1"]],
     [PoolIndex |-> 1, SetIndex |-> 0, DrivePath |-> "/data1", State |-> "ok",
      Endpoint |-> [err |-> FALSE, Path |-> "/data1"]],
     [PoolIndex |-> 0, SetIndex |-> 0, DrivePath |-> "", State |-> "ok",
      Endpoint |-> [err |-> FALSE, Path |-> "/data2"]]}

DiskLists == UNION {[1..k -> Disks] : k \in 0..MaxDisks}

\* The endpoints of the servers, in the order of the diagnostics.
Endpoints == <<"10.0.0.1:9000", "10.0.0.2:9000", "node1.example.com:9000">>

\* The inputs of main: a domain string and servers with their disks.
Diagnostics ==
    {[domainString |-> d,
      Servers      |-> SelectSeq([i \in 1..Len(Endpoints) |->
                                     [Endpoint |-> Endpoints[i],
                                      present  |-> i \in here,
                                      Disks    |-> disks[i]]],
                                 LAMBDA server : server.present)] :
        d \in {"", " .example.com:9000"},
        here \in SUBSET (1..Len(Endpoints)),
        disks \in [1..Len(Endpoints) -> DiskLists]}

CallAnalyze == Return /\ ret' = Analyze(arg)

SpecStats == InitCall(Diagnostics) /\ [][CallAnalyze]_vars

-----------------------------------------------------------------------------
(* C21 *)

RECURSIVE SumOfLines(_, _)
SumOfLines(report, n) ==
    IF n = 0 THEN 0 ELSE SumOfLines(report, n - 1) + report[n]

\* The Stats of the documented report.
DocumentedStats ==
    [ReadOps |-> 15, WriteOps |-> 12, OverwriteOps |-> 8, DeleteOps |-> 10,
     PrefixDeleteOps |-> 3, MultipartOps |-> 2, ErrorOps |-> 2]

\* C21: "Total Operations" of the final report is the sum of all the
\* counters printed above it, Error Operations included; the counters of the
\* documented report give 52.
C21_TotalIncludesErrors ==
    loop.pc = "exit" =>
        /\ loop.final[Len(StatsFields) + 1] = SumOfLines(loop.final, Len(StatsFields))
        /\ FinalReport(DocumentedStats)[Len(StatsFields) + 1] = 52

\* What holds of the code: the total is the sum of the six counters of the
\* operations, Error Operations left out; the documented counters give 50.
TotalWithoutErrors ==
    /\ FinalReport(DocumentedStats)[Len(StatsFields) + 1] = 50
    /\ loop.pc = "exit" =>
          loop.final[Len(StatsFields) + 1]
              = SumOfLines(loop.final, Len(StatsFields)) - stats.ErrorOps

\* A final report after an operation that failed.
FinalReportWithError ==
    /\ loop.pc = "exit"
    /\ stats.ErrorOps = 1
    /\ loop.final[Len(StatsFields)] = 1
    /\ loop.final[Len(StatsFields) + 1] = stats.WriteOps
    /\ stats.WriteOps = 1

-----------------------------------------------------------------------------
(* C23 *)

\* The entries of a comma-separated string, told by the places of its
\* commas: entry k lies between the (k-1)th and the kth comma.
CommaPlaces(s) == {i \in 1..Len(s) : At(s, i) = ","}

Entry(s, k) ==
    LET before == {i \in CommaPlaces(s) :
                      Cardinality({j \in CommaPlaces(s) : j < i}) = k - 2}
        after  == {i \in CommaPlaces(s) :
                      Cardinality({j \in CommaPlaces(s) : j < i}) = k - 1}
        from   == IF before = {} THEN 1 ELSE (CHOOSE i \in before : TRUE) + 1
        to     == IF after = {} THEN Len(s) ELSE (CHOOSE i \in after : TRUE) - 1
    IN  SubSeq(s, from, to)

\* s without the white space around it.
Stripped(s) ==
    IF \A i \in 1..Len(s) : isSpace(At(s, i)) THEN ""
    ELSE LET first == CHOOSE i \in 1..Len(s) :
                          ~isSpace(At(s, i)) /\ \A j \in 1..(i - 1) : isSpace(At(s, j))
             last  == CHOOSE i \in 1..Len(s) :
                          ~isSpace(At(s, i)) /\ \A j \in (i + 1)..Len(s) : isSpace(At(s, j))
         IN  SubSeq(s, first, last)

\* The entries of s in order, stripped, the empty ones left out.
EntriesOf(s) ==
    LET all == [k \in 1..(Cardinality(CommaPlaces(s)) + 1) |-> Stripped(Entry(s, k))]
    IN  SelectSeq(all, LAMBDA e : e # "")

\* C23: parseBuckets returns the entries of the comma-separated string in
\* their order, each without the white space around it, the empty ones
\* removed: "bucket1,,bucket2," gives [bucket1, bucket2] and "" gives the
\* empty list; getRandomBucket returns an error exactly when that list is
\* empty and otherwise a member of it.
C23_BucketList ==
    /\ (pc = "ret" /\ ret.fn = "parseBuckets") =>
          /\ ret.buckets = (IF arg = "" THEN <<>> ELSE EntriesOf(arg))
          /\ arg = "bucket1,,bucket2," => ret.buckets = <<"bucket1", "bucket2">>
          /\ arg = "" => ret.buckets = <<>>
    /\ (pc = "ret" /\ ret.fn = "getRandomBucket") =>
          /\ ret.err <=> EntriesOf(arg) = <<>>
          /\ ~ret.err => \E i \in 1..Len(EntriesOf(arg)) : ret.bucket = EntriesOf(arg)[i]

\* The string with empty entries has been parsed.
C23_EmptyEntriesRemoved ==
    /\ pc = "ret"
    /\ ret.fn = "parseBuckets"
    /\ arg = "bucket1,,bucket2,"
    /\ ret.buckets = <<"bucket1", "bucket2">>

\* A bucket other than the first of the list is chosen.
RandomBucketChosen ==
    /\ pc = "ret"
    /\ ret.fn = "getRandomBucket"
    /\ arg = " a,b"
    /\ ret.bucket = "b"

-----------------------------------------------------------------------------
(* C24 *)

\* runClient has printed the final statistics and returned.
Finished == loop.pc = "exit" /\ loop.final # <<>> /\ printer.pc = "exit"

\* The final statistics are printed at most once, after the loop returned,
\* and the loop returns only when the context is done.
ReportOnceAfterDeadline ==
    /\ [][loop.final # <<>> => loop'.final = loop.final]_vars
    /\ [](loop.pc \in {"final", "exit"} => ctx = "done")
    /\ [](loop.final # <<>> => loop.pc = "exit")

\* C24: with a positive duration the generator terminates: the operation
\* loop returns after the deadline, the stats printer stops and the final
\* statistics are printed exactly once; with duration 0 the loop never ends
\* on its own.
C24_Termination ==
    /\ (ctx = "timeout") ~> Finished
    /\ ReportOnceAfterDeadline
    /\ [](ctx = "background" => loop.pc \notin {"final", "exit"})

\* What holds of the code: the same, for a run whose operation delay is
\* positive.
TerminationWithPositiveDelay ==
    /\ (ctx = "timeout" /\ loop.delay > 0) ~> Finished
    /\ ReportOnceAfterDeadline
    /\ [](ctx = "background" => loop.pc \notin {"final", "exit"})

\* A run with a deadline and a delay of 0 has ended in the panic of
\* time.NewTicker, and no final statistics were printed.
PanicInNewTicker ==
    /\ loop.pc = "panic"
    /\ ctx \in {"timeout", "done"}
    /\ loop.final = <<>>

-----------------------------------------------------------------------------
(* C22 *)

\* C22: when deleteOperation finds no object it creates one and deletes
\* that same object, so that after its success the store again holds none;
\* readOperation and overwriteOperation in that case create one object and
\* do not fail for want of an object.
C22_DeleteFallback ==
    [][(loop'.ops = loop.ops + 1 /\ store = {} /\ ~lastOp'.err) =>
          /\ lastOp'.op = "delete" =>
                /\ Cardinality(lastOp'.created) = 1
                /\ lastOp'.deleted = lastOp'.created
                /\ store' = {}
          /\ lastOp'.op \in {"read", "overwrite"} =>
                /\ Cardinality(lastOp'.created) = 1
                /\ lastOp'.deleted = {}
                /\ store' = lastOp'.created]_vars

\* A delete on an empty store has succeeded.
C22_CreatedThenDeleted ==
    /\ lastOp.op = "delete"
    /\ ~lastOp.err
    /\ lastOp.created # {}
    /\ lastOp.deleted = lastOp.created
    /\ store = {}

\* A read on an empty store has succeeded and left one object.
ReadCreatedObject ==
    /\ lastOp.op = "read"
    /\ ~lastOp.err
    /\ loop.ops = 1
    /\ Cardinality(store) = 1

-----------------------------------------------------------------------------
(* C30 *)

\* The field that counts the operation op.
OwnField(op) ==
    CASE op = "write"        -> "WriteOps"
      [] op = "read"         -> "ReadOps"
      [] op = "overwrite"    -> "OverwriteOps"
      [] op = "delete"       -> "DeleteOps"
      [] op = "prefixDelete" -> "PrefixDeleteOps"
      [] op = "multipart"    -> "MultipartOps"

\* The statement as it stands: each pass that runs an operation increments
\* exactly one field, that of the operation chosen when it succeeds and
\* ErrorOps alone when it fails, so that the seven fields sum to the number
\* of operations chosen.
C30_OneCounterPerTickAsStated ==
    /\ lastOp.op # "" =>
          lastOp.inc = <<IF lastOp.err THEN "ErrorOps" ELSE OwnField(lastOp.op)>>
    /\ SumOfFields(Len(StatsFields)) = loop.ops

\* C30, amended: a pass increments the field of the operation chosen when
\* it succeeds on an object that exists, WriteOps in its place when a read,
\* overwrite or prefix delete found no object and created one, WriteOps and
\* then DeleteOps when a delete found none, and ErrorOps when it fails, after
\* WriteOps when a delete had created its object; the seven fields sum to at
\* least the number of operations chosen and at most twice that number.
C30_CountersPerTick ==
    /\ lastOp.op # "" =>
          LET fallback == lastOp.created # {} /\ lastOp.op \notin {"write", "multipart"}
          IN  lastOp.inc =
                  (IF fallback THEN <<"WriteOps">> ELSE <<>>)
                  \o (IF lastOp.err THEN <<"ErrorOps">>
                      ELSE IF fallback /\ lastOp.op # "delete" THEN <<>>
                      ELSE <<OwnField(lastOp.op)>>)
    /\ (lastOp.err /\ lastOp.created # {}) => lastOp.op = "delete"
    /\ SumOfFields(Len(StatsFields)) >= loop.ops
    /\ SumOfFields(Len(StatsFields)) <= 2 * loop.ops

\* One operation was chosen, a delete on an empty store, and two fields
\* were incremented.
C30_DeleteCountedTwice ==
    /\ loop.ops = 1
    /\ lastOp.op = "delete"
    /\ lastOp.inc = <<"WriteOps", "DeleteOps">>
    /\ stats.WriteOps = 1
    /\ stats.DeleteOps = 1

-----------------------------------------------------------------------------
(* C25 *)

\* The sum of the counts of the drive status summary.
SummaryTotal(driveStatus) ==
    LET cells == {<<poolIndex, status>> :
                     poolIndex \in DOMAIN driveStatus,
                     status \in {"ok", "offline"}}
        RECURSIVE Sum(_)
        Sum(S) == IF S = {} THEN 0
                  ELSE LET c == CHOOSE x \in S : TRUE
                       IN  (IF c[2] \in DOMAIN driveStatus[c[1]]
                            THEN driveStatus[c[1]][c[2]] ELSE 0) + Sum(S \ {c})
    IN  Sum(cells)

\* C25: the drive status summary counts every drive exactly once: the sum
\* of its counts is the number of disks of all servers, the drives= figure,
\* and every disk is listed under one pool and erasure set of its own.
C25_EveryDriveCountedOnce ==
    pc = "ret" =>
        /\ SummaryTotal(ret._driveStatus) = ret.noDrives
        /\ Cardinality(ret.listed) = ret.noDrives

\* What holds of the code: the summary counts the lines listed, one for
\* each pool, set and name of endpoint and drive, and these are no more
\* than the disks.
SummaryCountsListedNames ==
    pc = "ret" =>
        /\ SummaryTotal(ret._driveStatus) = Cardinality(ret.listed)
        /\ Cardinality(ret.listed) <= ret.noDrives

\* Two servers named by their addresses, one disk each, and one line.
TwoDisksOneLine ==
    /\ pc = "ret"
    /\ arg.domainString = ""
    /\ Len(arg.Servers) = 2
    /\ arg.Servers[1].Endpoint = "10.0.0.1:9000"
    /\ arg.Servers[2].Endpoint = "10.0.0.2:9000"
    /\ ret.noDrives = 2
    /\ ret.listed = {<<0, 0, "10:/data1">>}

-----------------------------------------------------------------------------
(* C26 *)

\* The size shown for every row is formatBytes of the bytes of the row.
RowsDerived(rows) ==
    \A i \in 1..Len(rows) : rows[i].human = formatBytes(rows[i].bytes)

\* C26: the human-readable size is always derived from the byte count: in
\* every state reached by parsing, and in every row of either view, it is
\* formatBytes of the size in bytes, "0 B" for a bucket with no byte-total
\* line.
C26_HumanSizeDerived ==
    /\ \A b \in DOMAIN mp.buckets :
          mp.buckets[b].SizeHuman = formatBytes(mp.buckets[b].SizeBytes)
    /\ table.printed => RowsDerived(table.rows)
    /\ top.printed => RowsDerived(top.entries)

\* What holds of the code: the size shown is the stored SizeHuman, which is
\* formatBytes of the bytes once a byte-total line of the bucket was read
\* and the empty string before.
HumanSizeStored ==
    /\ \A b \in DOMAIN mp.buckets :
          LET bucket == mp.buckets[b]
              lines  == {i \in 1..Len(input) :
                            /\ ~Skipped(TrimSpace(input[i]))
                            /\ Contains(input[i], "minio_bucket_usage_total_bytes")
                            /\ extractBucketName(TrimSpace(input[i])) = b}
          IN  bucket.SizeHuman =
                  IF lines = {} THEN "" ELSE formatBytes(bucket.SizeBytes)
    /\ table.printed =>
          \A i \in 1..Len(table.rows) :
              table.rows[i].human \in {"", formatBytes(table.rows[i].bytes)}
    /\ top.printed =>
          \A i \in 1..Len(top.entries) :
              top.entries[i].human \in {"", formatBytes(top.entries[i].bytes)}

\* A bucket with an object count and no byte total is shown with 0 bytes and
\* an empty human-readable size.
EmptyHumanSizeShown ==
    /\ pc = "done"
    /\ \E i \in 1..Len(table.rows) :
          /\ table.rows[i].name = "a"
          /\ table.rows[i].objects = 2
          /\ table.rows[i].bytes = 0
          /\ table.rows[i].human = ""

-----------------------------------------------------------------------------
(* C27 *)

\* The versioning states of which the distribution has a nonzero count.
StatesPresent(d) ==
    {k \in {"UNVERSIONED", "SINGLE_VERSION"} : Get(d, k) # 0}
        \cup (IF MultiCount(d) # 0 THEN {"MULTI_VERSION"} ELSE {})

\* C27: a distribution that combines nonzero counts of more than one
\* versioning state, such as UNVERSIONED together with SINGLE_VERSION, is
\* classified Mixed.
C27_MixedIsCombination ==
    (pc = "ret" /\ Cardinality(StatesPresent(arg)) > 1) => ret = "Mixed"

\* What holds of the code: with counts that are not negative, Mixed is the
\* status of the maps that are not empty and hold no object at all, and of no
\* other map.
MixedWithoutObjects ==
    (pc = "ret" /\ \A k \in DOMAIN arg : arg[k] >= 0) =>
        (ret = "Mixed" <=>
            (DOMAIN arg # {} /\ \A k \in DOMAIN arg : arg[k] = 0))

\* Unversioned and single-version objects together are classified
\* Single Version.
CombinationSingleVersion ==
    /\ pc = "ret"
    /\ DOMAIN arg = {"UNVERSIONED", "SINGLE_VERSION"}
    /\ arg["UNVERSIONED"] = 3
    /\ arg["SINGLE_VERSION"] = 1
    /\ ret = "Single Version"

-----------------------------------------------------------------------------
(* C28 *)

\* The index of the first line of the input that carries the bucket label.
FirstSeen(bucketName) ==
    CHOOSE i \in 1..Len(input) :
        /\ extractBucketName(TrimSpace(input[i])) = bucketName
        /\ \A j \in 1..(i - 1) :
              extractBucketName(TrimSpace(input[j])) # bucketName

\* Rows of equal size come in the order in which their buckets first appeared
\* in the input.
TiesInInsertionOrder(rows) ==
    \A i, j \in 1..Len(rows) :
        (/\ i < j
         /\ rows[i].bytes = rows[j].bytes
         /\ {rows[i].name, rows[j].name} \subseteq BucketLabels(input))
            => FirstSeen(rows[i].name) < FirstSeen(rows[j].name)

\* The entries are the first rows of the table, in the order of the table.
FirstRowsOfTable(entries, rows) ==
    /\ Len(entries) <= Len(rows)
    /\ \A i \in 1..Len(entries) :
          /\ DisplayName(entries[i].name) = rows[i].name
          /\ entries[i].objects = rows[i].objects
          /\ entries[i].bytes = rows[i].bytes

\* C28: the order of the report is determined by the input: buckets of equal
\* size are rendered in the order in which they first appeared, a second run
\* over the same input and options renders the same table and the same Top-N
\* section, and the Top-N entries are the first N rows of the table.
C28_OrderFromInput ==
    /\ pc \in {"table", "done"} =>
          /\ TiesInInsertionOrder(table.rows)
          /\ SummaryTables(mp, opts) = {table}
    /\ pc = "done" =>
          /\ TiesInInsertionOrder(top.entries)
          /\ TopBuckets(mp, top.n, opts) = {top}
          /\ FirstRowsOfTable(top.entries, table.rows)

\* What holds of the code: both views are in order of size, largest first,
\* and the sizes of the Top-N entries are the sizes of the first rows of the
\* table; which of two buckets of one size comes first is not determined.
OrderBySizeOnly ==
    /\ pc \in {"table", "done"} =>
          \A i, j \in 1..Len(table.rows) :
              i < j => table.rows[i].bytes >= table.rows[j].bytes
    /\ pc = "done" =>
          /\ Len(top.entries) <= Len(table.rows)
          /\ \A i \in 1..Len(top.entries) :
                top.entries[i].bytes = table.rows[i].bytes

\* Bucket a appeared before bucket b and both have no bytes: the table shows
\* b before a and the Top-N section a before b.
TieOrderDiffers ==
    /\ pc = "done"
    /\ Len(input) = 2
    /\ extractBucketName(TrimSpace(input[1])) = "a"
    /\ extractBucketName(TrimSpace(input[2])) = "b"
    /\ Len(table.rows) = 2
    /\ table.rows[1].name = "b"
    /\ table.rows[2].name = "a"
    /\ table.rows[1].bytes = table.rows[2].bytes
    /\ Len(top.entries) = 2
    /\ top.entries[1].name = "a"
    /\ top.entries[2].name = "b"

-----------------------------------------------------------------------------
(* C29 *)

\* A line that is blank after trimming, or a comment, or has no bucket label
\* and names none of the four cluster families.
Inert(text) ==
    LET line == TrimSpace(text)
    IN  \/ line = ""
        \/ HasPrefix(line, "#")
        \/ /\ extractBucketName(line) = ""
           /\ \A family \in ClusterFamilies : ~Contains(line, family)

NoBucketLabel(text) == extractBucketName(TrimSpace(text)) = ""

HasBucketLabel(text) == extractBucketName(TrimSpace(text)) # ""

\* The cluster accumulators of the parser.
ClusterAccumulators(m) ==
    <<m.ClusterObjects, m.ClusterBytes, m.ClusterVersionDist, m.ClusterSizeDist>>

\* C29: a step that reads a blank line, a comment, or a line with no bucket
\* label and none of the four cluster family names leaves the whole aggregate
\* as it was; a line without a bucket label creates and modifies no bucket;
\* a line with a bucket label leaves the cluster accumulators as they were.
C29_Frame ==
    [][/\ LineRead(Inert) => mp' = mp
       /\ LineRead(NoBucketLabel) => mp'.buckets = mp.buckets
       /\ LineRead(HasBucketLabel) =>
             ClusterAccumulators(mp') = ClusterAccumulators(mp)]_vars

\* After the line of a bucket and a line of the cluster, a line of neither
\* has been read: the bucket and the cluster total are as the first two lines
\* left them.
C29_InertLineAfterData ==
    /\ Len(input) = 3
    /\ input[1] = "minio_bucket_usage_total_bytes{bucket=\"<cluster-aggregate>\",server=\"s1\"} 7"
    /\ input[2] = "minio_cluster_usage_total_bytes{server=\"s1\"} 5.67e+08"
    /\ input[3] = "minio_bucket_usage_object_total{server=\"s1\"} 5"
    /\ DOMAIN mp.buckets = {"<cluster-aggregate>"}
    /\ mp.buckets["<cluster-aggregate>"].SizeBytes = 7
    /\ mp.buckets["<cluster-aggregate>"].ObjectCount = 0
    /\ mp.ClusterBytes = 567000000
    /\ mp.ClusterObjects = 0

\* A blank line and a comment have been read after the line of the cluster,
\* which is all the aggregate holds.
BlankAndCommentSkipped ==
    /\ Len(input) = 3
    /\ input[1] = "minio_cluster_usage_total_bytes{server=\"s1\"} 5.67e+08"
    /\ input[2] = ""
    /\ HasPrefix(input[3], "#")
    /\ mp.buckets = <<>>
    /\ mp.ClusterBytes = 567000000

=============================================================================
